---- MODULE Spec2Model ----
(***************************************************************************)
(* A model of the Apex monitoring agent: the retry primitive               *)
(* (utils/retry.js), the monitors, the anomaly detector, the SQLite store,  *)
(* the notifier and the orchestrator's run() cycle.                         *)
(*                                                                         *)
(* Two specifications share the module:                                    *)
(*   SpecRetry  one call of retry(fn, maxRetries, delay), the operation fn  *)
(*              succeeding or failing at each attempt;                      *)
(*   Spec       an orchestrator object driven by its caller: initialize()   *)
(*              and up to MaxRuns calls of run(), each run advancing from   *)
(*              one await to the next, every remote call, store call and    *)
(*              notifier step succeeding or failing.                        *)
(***************************************************************************)
EXTENDS Integers, Sequences, FiniteSets, TLC

\* ------------------------------------------------------------------ bounds
\* the largest maxRetries a call of retry is given
MaxAttempts == 4
\* the number of calls of run() the caller makes
MaxRuns == 2
\* the largest number of records one remote query returns
MaxRecs == 1
\* the largest number of failures (of a remote query, a store call, a notifier
\* step, the database opening or the login) injected in one behaviour
MaxFaults == 2
\* the largest number of errors in an error snapshot handed to the detector
MaxErrors == 7
\* the largest number of distinct error types in such a snapshot
MaxTypes == 6
\* the largest number of limit records, and of classes, handed to the detector
MaxInputs == 2
\* the calls made on the SalesforceAuth object
MaxCalls == 6
\* the calls made directly on the store
MaxStoreCalls == 4

\* ------------------------------------------------------- program constants
\* retry(fn, maxRetries = 3, delay = 1000)
DefaultMaxRetries == 3
DefaultDelay == 1000

None == "none"

\* ======================================================================
\* utils/retry.js
\* ======================================================================
VARIABLES
    retryPc,      \* "idle", "attempt", "sleeping", "returned", "thrown"
    maxRetries,   \* the argument maxRetries
    delay,        \* the argument delay
    attempt,      \* the loop variable
    lastError,    \* the variable lastError (None: undefined)
    sleeps,       \* the arguments of the calls of sleep(), in order
    logs,         \* the calls of logger.warn / logger.error, in order
    fnErrors,     \* the error raised by each failed invocation of fn, in order
    fnCalls,      \* the number of invocations of fn
    retryResult   \* what retry returned or threw

retryVars == <<retryPc, maxRetries, delay, attempt, lastError, sleeps, logs,
               fnErrors, fnCalls, retryResult>>

\* the errors fn may raise and the values it may return
Errors == {"e1", "e2"}
Values == {"v1"}
\* the initial delays tried
Delays == {1, DefaultDelay}

RECURSIVE Pow2(_)
Pow2(n) == IF n <= 0 THEN 1 ELSE 2 * Pow2(n - 1)

\* Math.pow(2, attempt) in place of Math.pow(2, attempt - 1)
backoffDelayShifted(d, k) == d * Pow2(k)
\* const backoffDelay = delay * Math.pow(2, attempt - 1)
backoffDelay(d, k) == d * Pow2(k - 1)

\* attempt <= maxRetries in place of attempt < maxRetries
willRetryAlways(k, m) == k <= m
\* if (attempt < maxRetries)
willRetry(k, m) == k < m

\* lastError kept from the first failure
nextLastErrorFirst(old, e) == IF old = None THEN e ELSE old
\* lastError = error
nextLastError(old, e) == e

\* logger.warn(`Attempt ${attempt} failed, retrying in ${backoffDelay}ms...`,
\*             { error: error.message })
warnEntry(k, d, e) ==
    <<[level |-> "warn", attempt |-> k, backoff |-> backoffDelay(d, k), error |-> e]>>

\* no exhaustion report
exhaustedEntryNone(m, e) == <<>>
\* logger.error(`All ${maxRetries} attempts failed`, { error: lastError.message })
exhaustedEntry(m, e) ==
    <<[level |-> "error", attempt |-> m, backoff |-> 0, error |-> e]>>

\* a success after failures that throws the error of the earlier attempt
attemptReturnOrRethrow(v, le) ==
    IF le = None THEN [kind |-> "return", value |-> v]
    ELSE [kind |-> "throw", value |-> le]
\* return await fn(): the value of fn is returned, lastError is not looked at
attemptReturn(v, le) == [kind |-> "return", value |-> v]

RetryInit ==
    /\ retryPc = "idle"
    /\ maxRetries = DefaultMaxRetries
    /\ delay = DefaultDelay
    /\ attempt = 0
    /\ lastError = None
    /\ sleeps = <<>>
    /\ logs = <<>>
    /\ fnErrors = <<>>
    /\ fnCalls = 0
    /\ retryResult = [kind |-> "none", value |-> None]

\* retry(fn, m, d) is called: let lastError; attempt = 1; the loop test.
\* With m = 0 the loop body never runs and lastError.message raises a TypeError
\* before logger.error is called.
RetryCall ==
    /\ retryPc = "idle"
    /\ \E m \in 0..MaxAttempts, d \in Delays :
        /\ maxRetries' = m
        /\ delay' = d
        /\ attempt' = 1
        /\ IF 1 <= m
              THEN /\ retryPc' = "attempt"
                   /\ retryResult' = [kind |-> "none", value |-> None]
              ELSE /\ retryPc' = "thrown"
                   /\ retryResult' = [kind |-> "throw", value |-> "TypeError"]
    /\ UNCHANGED <<lastError, sleeps, logs, fnErrors, fnCalls>>

\* return await fn(): the attempt succeeds
RetryAttemptOk ==
    /\ retryPc = "attempt"
    /\ \E v \in Values :
        retryResult' = attemptReturn(v, lastError)
    /\ fnCalls' = fnCalls + 1
    /\ retryPc' = "returned"
    /\ UNCHANGED <<maxRetries, delay, attempt, lastError, sleeps, logs, fnErrors>>

\* catch (error): the attempt fails; either warn and sleep, or leave the loop,
\* report the exhaustion and throw lastError
RetryAttemptFail ==
    /\ retryPc = "attempt"
    /\ \E e \in Errors :
        LET le == nextLastError(lastError, e) IN
        /\ fnErrors' = Append(fnErrors, e)
        /\ lastError' = le
        /\ IF willRetry(attempt, maxRetries)
              THEN /\ logs' = logs \o warnEntry(attempt, delay, e)
                   /\ sleeps' = Append(sleeps, backoffDelay(delay, attempt))
                   /\ retryPc' = "sleeping"
                   /\ attempt' = attempt
                   /\ retryResult' = retryResult
              ELSE IF attempt + 1 <= maxRetries
                      \* no sleep, the loop goes on at once
                      THEN /\ retryPc' = "attempt"
                           /\ attempt' = attempt + 1
                           /\ UNCHANGED <<logs, sleeps, retryResult>>
                      ELSE /\ logs' = logs \o exhaustedEntry(maxRetries, le)
                           /\ retryPc' = "thrown"
                           /\ attempt' = attempt + 1
                           /\ retryResult' = [kind |-> "throw", value |-> le]
                           /\ sleeps' = sleeps
    /\ fnCalls' = fnCalls + 1
    /\ UNCHANGED <<maxRetries, delay>>

\* await sleep(backoffDelay) resolves: attempt++ and the loop test
RetryWake ==
    /\ retryPc = "sleeping"
    /\ attempt' = attempt + 1
    /\ IF attempt + 1 <= maxRetries
          THEN /\ retryPc' = "attempt"
               /\ UNCHANGED <<logs, retryResult>>
          ELSE /\ logs' = logs \o exhaustedEntry(maxRetries, lastError)
               /\ retryPc' = "thrown"
               /\ retryResult' = [kind |-> "throw", value |-> lastError]
    /\ UNCHANGED <<maxRetries, delay, lastError, sleeps, fnErrors, fnCalls>>

\* ======================================================================
\* monitors/*.js and analyzers/anomaly-detector.js: the pure part
\* ======================================================================
\* the governor limits written into every limit record
SoqlQueriesLimit == 100
DmlStatementsLimit == 150
CpuTimeLimit == 10000
HeapSizeLimit == 6000000
\* if (summary.uniqueErrorTypes > 5)
MaxErrorTypes == 5
\* parseFloat(usage.maxPercent) >= 90, >= 80
CriticalPercent == 90
HighPercent == 80
\* if (issue.issues.length >= 3)
MediumIssueCount == 3

Max(a, b) == IF a >= b THEN a ELSE b

\* the elements of seq at the positions in keep, from position i on, in order
RECURSIVE SelectIdx(_, _, _)
SelectIdx(seq, keep, i) ==
    IF i > Len(seq) THEN <<>>
    ELSE (IF i \in keep THEN <<seq[i]>> ELSE <<>>) \o SelectIdx(seq, keep, i + 1)

\* errorTypes[error.errorType] = (errorTypes[error.errorType] || 0) + 1
Histogram(keys) ==
    [k \in {keys[i] : i \in 1..Len(keys)} |->
        Cardinality({i \in 1..Len(keys) : keys[i] = k})]

ErrorTypesOf(errors) == [i \in 1..Len(errors) |-> errors[i].errorType]
ClassNamesOf(errors) == [i \in 1..Len(errors) |-> errors[i].className]

\* DebugLogMonitor.analyzeErrors: totals, the histograms per error type and per
\* class, and the most frequent type (the stable sort keeps the first
\* encountered type among equals)
analyzeErrors(errors) ==
    LET errorTypes == Histogram(ErrorTypesOf(errors))
        best == IF errors = <<>> THEN 0
                ELSE CHOOSE i \in 1..Len(errors) :
                       /\ \A j \in 1..Len(errors) :
                            errorTypes[errors[j].errorType] <= errorTypes[errors[i].errorType]
                       /\ \A j \in 1..(i - 1) :
                            errorTypes[errors[j].errorType] < errorTypes[errors[i].errorType]
    IN  [ totalErrors      |-> Len(errors),
          uniqueErrorTypes |-> Cardinality(DOMAIN errorTypes),
          errorTypes       |-> errorTypes,
          classErrors      |-> Histogram(ClassNamesOf(errors)),
          mostCommonError  |-> IF best = 0 THEN "None" ELSE errors[best].errorType ]

\* a / b rounded to the nearest integer, halves up
RoundDiv(a, b) == (2 * a + b) \div (2 * b)

\* ((used / limit) * 100).toFixed(1), in tenths of a percent
PercentTenths(used, limit) ==
    IF limit % 1000 = 0 THEN RoundDiv(used, limit \div 1000)
    ELSE RoundDiv(used * 1000, limit)

\* (used / limit) * 100 >= threshold
PercentAtLeast(used, limit, threshold) == used * 100 >= threshold * limit

\* a comparison of the SOQL percentage alone
MaxPercentAtLeastSoqlOnly(data, threshold) ==
    PercentAtLeast(data.soqlQueriesUsed, SoqlQueriesLimit, threshold)
\* Math.max(soqlPercent, dmlPercent, cpuPercent, heapPercent) >= threshold
MaxPercentAtLeast(data, threshold) ==
    \/ PercentAtLeast(data.soqlQueriesUsed, SoqlQueriesLimit, threshold)
    \/ PercentAtLeast(data.dmlStatementsUsed, DmlStatementsLimit, threshold)
    \/ PercentAtLeast(data.cpuTimeUsed, CpuTimeLimit, threshold)
    \/ PercentAtLeast(data.heapSizeUsed, HeapSizeLimit, threshold)

\* maxPercent.toFixed(1), in tenths of a percent
MaxPercentTenths(data) ==
    Max(Max(PercentTenths(data.soqlQueriesUsed, SoqlQueriesLimit),
            PercentTenths(data.dmlStatementsUsed, DmlStatementsLimit)),
        Max(PercentTenths(data.cpuTimeUsed, CpuTimeLimit),
            PercentTenths(data.heapSizeUsed, HeapSizeLimit)))

\* GovernorLimitMonitor.analyzeLimits: the records whose highest percentage is at
\* least thresholds.soqlQueries, each with its maxPercent, in input order
analyzeLimits(limitData, thresholds) ==
    LET high == {i \in 1..Len(limitData) :
                    MaxPercentAtLeast(limitData[i], thresholds.soqlQueries)}
        highUsage == SelectIdx([i \in 1..Len(limitData) |->
                                   [className |-> limitData[i].className,
                                    maxPercent |-> MaxPercentTenths(limitData[i])]],
                               high, 1)
    IN  [ highUsageCount |-> Len(highUsage), highUsage |-> highUsage ]

\* the issues of a class if a complexity equal to the threshold counted
classIssuesAtLeast(cls, thresholds) ==
    (IF cls.complexity >= thresholds.cyclomaticComplexity
        THEN <<"High complexity">> ELSE <<>>)
    \o (IF cls.length > thresholds.classLength
        THEN <<"Class too long">> ELSE <<>>)
    \o (IF cls.testCoverage # <<>> /\ cls.testCoverage[1] < thresholds.minTestCoverage
        THEN <<"Low test coverage">> ELSE <<>>)
\* the issues of one class, in the order identifyIssues pushes them
classIssues(cls, thresholds) ==
    (IF cls.complexity > thresholds.cyclomaticComplexity
        THEN <<"High complexity">> ELSE <<>>)
    \o (IF cls.length > thresholds.classLength
        THEN <<"Class too long">> ELSE <<>>)
    \o (IF cls.testCoverage # <<>> /\ cls.testCoverage[1] < thresholds.minTestCoverage
        THEN <<"Low test coverage">> ELSE <<>>)

\* CodeQualityMonitor.identifyIssues: the classes with at least one issue
identifyIssues(classes, thresholds) ==
    SelectIdx([i \in 1..Len(classes) |->
                  [className |-> classes[i].name,
                   issues |-> classIssues(classes[i], thresholds)]],
              {i \in 1..Len(classes) : classIssues(classes[i], thresholds) # <<>>}, 1)

\* ----------------------------------------------------------------------
\* analyzers/anomaly-detector.js
\* ----------------------------------------------------------------------
VARIABLES
    dPc,        \* how often detect() was called on the results: "input", "once", "twice"
    dResults,   \* the monitoringResults handed to detect()
    dConfig,    \* this.config of the detector
    dStore,     \* what this.db holds: the number of error rows of earlier runs
    dFirst,     \* the list the first call returned
    dSecond     \* the list the second call returned

detVars == <<dPc, dResults, dConfig, dStore, dFirst, dSecond>>

\* errors.length > thresholds.absoluteCount
errorRateFiresStrict(count, threshold) == count > threshold
\* if (errors.length >= thresholds.absoluteCount)
errorRateFires(count, threshold) == count >= threshold

\* summary.uniqueErrorTypes >= 5
multipleTypesFiresAtLeast(uniqueErrorTypes) == uniqueErrorTypes >= MaxErrorTypes
\* if (summary.uniqueErrorTypes > 5)
multipleTypesFires(uniqueErrorTypes) == uniqueErrorTypes > MaxErrorTypes

\* AnomalyDetector.detectErrorAnomalies
detectErrorAnomalies(debugLogResults, config) ==
    (IF errorRateFires(Len(debugLogResults.errors),
                       config.thresholds.errorRate.absoluteCount)
        THEN <<[type |-> "HIGH_ERROR_RATE", severity |-> "HIGH",
                subject |-> "errors", measure |-> Len(debugLogResults.errors)]>>
        ELSE <<>>)
    \o (IF multipleTypesFires(debugLogResults.summary.uniqueErrorTypes)
        THEN <<[type |-> "MULTIPLE_ERROR_TYPES", severity |-> "MEDIUM",
                subject |-> "errors",
                measure |-> debugLogResults.summary.uniqueErrorTypes]>>
        ELSE <<>>)

\* a severity outside the four levels for the highest usage
limitSeverityUrgent(maxPercent) ==
    IF maxPercent >= CriticalPercent * 10 THEN "URGENT"
    ELSE IF maxPercent >= HighPercent * 10 THEN "HIGH"
    ELSE "MEDIUM"
\* the severity of one high-usage record: parseFloat(usage.maxPercent) is the
\* percentage rounded to one decimal, here in tenths
limitSeverity(maxPercent) ==
    IF maxPercent >= CriticalPercent * 10 THEN "CRITICAL"
    ELSE IF maxPercent >= HighPercent * 10 THEN "HIGH"
    ELSE "MEDIUM"

\* AnomalyDetector.detectLimitAnomalies
detectLimitAnomalies(limitResults) ==
    IF limitResults.analysis.highUsageCount > 0
    THEN [i \in 1..Len(limitResults.analysis.highUsage) |->
            LET usage == limitResults.analysis.highUsage[i] IN
            [type |-> "HIGH_GOVERNOR_LIMIT_USAGE",
             severity |-> limitSeverity(usage.maxPercent),
             subject |-> usage.className, measure |-> usage.maxPercent]]
    ELSE <<>>

\* AnomalyDetector.detectQualityAnomalies
detectQualityAnomalies(qualityResults) ==
    [i \in 1..Len(qualityResults.issues) |->
        LET issue == qualityResults.issues[i] IN
        [type |-> "CODE_QUALITY_ISSUE",
         severity |-> IF Len(issue.issues) >= MediumIssueCount THEN "MEDIUM" ELSE "LOW",
         subject |-> issue.className, measure |-> Len(issue.issues)]]

\* a detect that pushes the quality anomalies before the limit anomalies
detectQualityFirst(results, config) ==
    (IF results.debugLogs # <<>>
        THEN detectErrorAnomalies(results.debugLogs[1], config) ELSE <<>>)
    \o (IF results.codeQuality # <<>>
        THEN detectQualityAnomalies(results.codeQuality[1]) ELSE <<>>)
    \o (IF results.governorLimits # <<>>
        THEN detectLimitAnomalies(results.governorLimits[1]) ELSE <<>>)
\* a detect that consults this.db: the error anomalies are dropped once the
\* store holds errors of earlier runs
detectWithHistory(results, config) ==
    (IF results.debugLogs # <<>> /\ dStore = 0
        THEN detectErrorAnomalies(results.debugLogs[1], config) ELSE <<>>)
    \o (IF results.governorLimits # <<>>
        THEN detectLimitAnomalies(results.governorLimits[1]) ELSE <<>>)
    \o (IF results.codeQuality # <<>>
        THEN detectQualityAnomalies(results.codeQuality[1]) ELSE <<>>)
\* AnomalyDetector.detect: error, then limit, then quality anomalies, each only
\* for a snapshot that is present (a result is <<>> or <<snapshot>>)
detect(results, config) ==
    (IF results.debugLogs # <<>>
        THEN detectErrorAnomalies(results.debugLogs[1], config) ELSE <<>>)
    \o (IF results.governorLimits # <<>>
        THEN detectLimitAnomalies(results.governorLimits[1]) ELSE <<>>)
    \o (IF results.codeQuality # <<>>
        THEN detectQualityAnomalies(results.codeQuality[1]) ELSE <<>>)

\* ======================================================================
\* the remote platform as the monitors see it
\* ======================================================================
\* all sequences over S of length at most n
RECURSIVE SeqsUpTo(_, _)
SeqsUpTo(S, n) ==
    IF n = 0 THEN {<<>>}
    ELSE SeqsUpTo(S, n - 1) \cup
         {Append(q, x) : q \in {t \in SeqsUpTo(S, n - 1) : Len(t) = n - 1}, x \in S}

\* ApexLog rows with Status != 'Success', as queryDebugLogs maps them
RemoteErrors == { [errorType |-> "Failed", className |-> "ClsA"] }

\* ApexLog rows as extractLimitData maps them (the usages are random numbers)
RemoteLimits ==
    { [className |-> "ClsA", soqlQueriesUsed |-> 95, dmlStatementsUsed |-> 15,
       cpuTimeUsed |-> 100, heapSizeUsed |-> 6000] }

\* ApexClass rows: name and LengthWithoutComments
RemoteClasses == { [name |-> "ClsA", length |-> 1001] }

\* the values calculateComplexity returns for a class whose symbol table was read
Complexities == {16}

\* catch (error) of queryDebugLogs with the error thrown again
queryDebugLogsCatchRethrow(label) ==
    [raised |-> TRUE, error |-> label, records |-> <<>>, faults |-> {label}]
\* catch (error) { logger.error(...); return []; } of queryDebugLogs
queryDebugLogsCatch(label) ==
    [raised |-> FALSE, error |-> "", records |-> <<>>, faults |-> {label}]

\* DebugLogMonitor.queryDebugLogs: the lookback date is computed before the try;
\* then the EventLogFile query, and only if it finds rows the ApexLog query
queryDebugLogs(config) ==
    IF ~config.monitoring.intervals.debugLogHoursValid
    THEN { [raised |-> TRUE, error |-> "RangeError", records |-> <<>>,
            faults |-> {"lookback"}] }
    ELSE { queryDebugLogsCatch("query:EventLogFile"),
           [raised |-> FALSE, error |-> "", records |-> <<>>, faults |-> {}],
           queryDebugLogsCatch("query:ApexLog") }
         \cup { [raised |-> FALSE, error |-> "", records |-> es, faults |-> {}] :
                  es \in SeqsUpTo(RemoteErrors, MaxRecs) }

\* catch (error) { ...; throw error; } of monitor()
monitorCatch(o) == o

\* DebugLogMonitor.monitor
DebugLogMonitor(config) ==
    { IF o.raised THEN monitorCatch(o)
      ELSE [o EXCEPT !.records = <<[errors |-> o.records,
                                    summary |-> analyzeErrors(o.records)]>>] :
      o \in queryDebugLogs(config) }

\* catch (error) { ...; return []; } of extractLimitData
extractLimitDataCatch(label) ==
    [raised |-> FALSE, error |-> "", records |-> <<>>, faults |-> {label}]

\* GovernorLimitMonitor.extractLimitData: the lookback date is computed inside
\* the try
extractLimitData(config) ==
    IF ~config.monitoring.intervals.debugLogHoursValid
    THEN { extractLimitDataCatch("lookback") }
    ELSE { extractLimitDataCatch("query:ApexLogLimits") }
         \cup { [raised |-> FALSE, error |-> "", records |-> ls, faults |-> {}] :
                  ls \in SeqsUpTo(RemoteLimits, MaxRecs) }

\* GovernorLimitMonitor.monitor
GovernorLimitMonitor(config) ==
    { IF o.raised THEN monitorCatch(o)
      ELSE [o EXCEPT !.records =
              <<[limitData |-> o.records,
                 analysis |-> analyzeLimits(o.records, config.thresholds.governorLimits)]>>] :
      o \in extractLimitData(config) }

\* catch (error) { ...; return []; } of analyzeApexClasses
analyzeApexClassesCatch(label) ==
    [raised |-> FALSE, error |-> "", records |-> <<>>, faults |-> {label}]

\* the inner catch (e) { logger.warn(...) }: symbolTable stays null and
\* calculateComplexity(null) is 0
symbolTableCatch == 0

\* a coverage read from the org, below the threshold
testCoverageMeasured(cls) == <<50>>
\* testCoverage: null in the record analyzeApexClasses pushes
testCoverageOf(cls) == <<>>

\* the classes pushed for the ApexClass rows cs when the SymbolTable query of
\* row i answers sym[i] (<<>>: the query failed)
classesOf(cs, sym) ==
    [i \in 1..Len(cs) |->
        [name |-> cs[i].name, length |-> cs[i].length,
         complexity |-> IF sym[i] = <<>> THEN symbolTableCatch ELSE sym[i][1],
         testCoverage |-> testCoverageOf(cs[i])]]

\* CodeQualityMonitor.analyzeApexClasses: the ApexClass query, then one
\* SymbolTable query per class; testCoverage is always null
analyzeApexClasses(config) ==
    { analyzeApexClassesCatch("query:ApexClass") }
    \cup UNION {
           { [raised |-> FALSE, error |-> "", records |-> classesOf(cs, sym),
              faults |-> IF \E i \in 1..Len(cs) : sym[i] = <<>>
                         THEN {"query:SymbolTable"} ELSE {}] :
               sym \in [1..Len(cs) -> {<<>>} \cup {<<c>> : c \in Complexities}] } :
           cs \in SeqsUpTo(RemoteClasses, MaxRecs) }

\* CodeQualityMonitor.monitor
CodeQualityMonitor(config) ==
    { IF o.raised THEN monitorCatch(o)
      ELSE [o EXCEPT !.records =
              <<[classes |-> o.records,
                 issues |-> identifyIssues(o.records, config.thresholds.codeQuality)]>>] :
      o \in analyzeApexClasses(config) }

\* ======================================================================
\* notifications/notifier.js
\* ======================================================================
\* catch (error) of notify with the error thrown again
notifyCatchRethrow(label) == [raised |-> TRUE, status |-> "failed", faults |-> {label}]
\* catch (error) { logger.error('Failed to send notifications', ...) } of notify
notifyCatch(label) == [raised |-> FALSE, status |-> "failed", faults |-> {label}]

\* catch (error) { logger.error('Failed to save report', ...) } of saveReport
saveReportCatch == {"notify:saveReport"}
\* catch (error) { logger.error('Failed to send email', ...) } of sendEmail
sendEmailCatch == {"notify:sendEmail"}

\* Notifier.notify: nothing to do without anomalies when onAnomalyOnly is set;
\* else the report is generated, saved if generateHtml, mailed if email is
\* enabled and a transporter exists
notify(config, transporter, anomalies) ==
    IF anomalies = <<>> /\ config.notifications.email.onAnomalyOnly
    THEN { [raised |-> FALSE, status |-> "skipped", faults |-> {}] }
    ELSE { notifyCatch("notify:generateReport") }
         \cup { [raised |-> FALSE, status |-> "sent", faults |-> sf \cup mf] :
                  sf \in (IF config.notifications.reports.generateHtml
                          THEN {{}, saveReportCatch} ELSE {{}}),
                  mf \in (IF config.notifications.email.enabled /\ transporter
                          THEN {{}, sendEmailCatch} ELSE {{}}) }

\* ======================================================================
\* auth/salesforce-auth.js, storage/database.js, orchestrator.js
\* ======================================================================
VARIABLES
    config,       \* the configuration the constructor loaded
    initState,    \* initialize(): "new", "ok" or "failed"
    db,           \* this.db: "null", "unopened" (initialize failed), "open",
                  \* "closed" (close() was called on the open handle)
    notifier,     \* this.notifier: whether set, and whether it has a transporter
    authConn,     \* salesforceAuth.conn: 0 for null, else the connection
    connSeq,      \* the number of connections created
    runsTable,    \* monitoring_runs: the row of id i is runsTable[i]
    errorRows,    \* debug_log_errors
    limitRows,    \* governor_limits
    anomalyRows,  \* anomalies
    run           \* the calls of run(): where each is, its locals, what it did

orchVars == <<config, initState, db, notifier, authConn, connSeq, runsTable,
              errorRows, limitRows, anomalyRows, run>>

\* index.js (main) and scheduler.js
VARIABLES
    mainPc,       \* main(): "start", "initialized" (initialize() has settled),
                  \* "awaitRun" (await orchestrator.run()), "serving" (main has
                  \* returned, the scheduler keeps the process alive), "exited"
    runOnce,      \* args.includes('--run-once')
    task,         \* scheduler.task: "null", "scheduled", "stopped"
    handlers,     \* whether the SIGINT and SIGTERM handlers are registered
    exitCode,     \* <<>> until process.exit(c) is called, then <<c>>
    signal,       \* the signal the process received, "" for none
    closes,       \* how often close() was called on the storage handle
    ticks         \* how often the cron task has fired

mainVars == <<mainPc, runOnce, task, handlers, exitCode, signal, closes, ticks>>

\* auth/salesforce-auth.js: the calls made on the exported SalesforceAuth object
VARIABLES authLog

\* storage/database.js: the calls made on a MonitoringDatabase by a direct caller
VARIABLES storeLog

procVars == <<mainVars, authLog, storeLog>>

vars == <<retryVars, orchVars, detVars, procVars>>

Runs == 1..MaxRuns

\* Date.now() - startTime, as measured at the end of a run
Elapsed == {5}

Thresholds ==
    [ errorRate |-> [absoluteCount |-> 1],
      governorLimits |-> [soqlQueries |-> 70, dmlStatements |-> 70, cpuTime |-> 70],
      codeQuality |-> [cyclomaticComplexity |-> 15, classLength |-> 1000,
                       minTestCoverage |-> 75] ]

Config(dl, gl, cq, hoursValid, quiet) ==
    [ monitoring |-> [enabled |-> [debugLogs |-> dl, governorLimits |-> gl,
                                   codeQuality |-> cq],
                      intervals |-> [debugLogHoursValid |-> hoursValid]],
      thresholds |-> Thresholds,
      notifications |-> [email |-> [enabled |-> ~quiet, onAnomalyOnly |-> ~quiet],
                         reports |-> [generateHtml |-> ~quiet]] ]

\* the configurations tried: everything enabled; one monitor disabled; a
\* debugLogHours that yields no valid date; no e-mail and no report file
Configs ==
    { Config(TRUE, TRUE, TRUE, TRUE, FALSE),
      Config(FALSE, TRUE, TRUE, TRUE, FALSE),
      Config(TRUE, FALSE, TRUE, TRUE, FALSE),
      Config(TRUE, TRUE, FALSE, TRUE, FALSE),
      Config(TRUE, TRUE, TRUE, FALSE, FALSE),
      Config(TRUE, TRUE, TRUE, TRUE, TRUE) }

NoResults == [debugLogs |-> <<>>, governorLimits |-> <<>>, codeQuality |-> <<>>]

NewRun ==
    [ pc |-> "idle", runId |-> 0, conn |-> 0, results |-> NoResults,
      anomalies |-> <<>>, notified |-> "no",
      outcome |-> [kind |-> "none", success |-> FALSE, error |-> ""],
      steps |-> <<>>, faults |-> {} ]

OrchInit ==
    /\ initState = "new"
    /\ db = "null"
    /\ notifier = [set |-> FALSE, transporter |-> FALSE]
    /\ authConn = 0
    /\ connSeq = 0
    /\ runsTable = <<>>
    /\ errorRows = <<>>
    /\ limitRows = <<>>
    /\ anomalyRows = <<>>
    /\ run = [r \in Runs |-> NewRun]

\* the failures that are consequences of the configuration or of an earlier
\* failure, not injected ones
Forced == {"lookback", "getConnection"}

RECURSIVE SumFaults(_, _)
SumFaults(recs, n) ==
    IF n = 0 THEN 0 ELSE Cardinality(recs[n].faults \ Forced) + SumFaults(recs, n - 1)

\* the failures that may still be injected once call r of run() is at rec
FaultsLeft(r, rec) ==
    MaxFaults - SumFaults([run EXCEPT ![r] = rec], MaxRuns)
              - (IF initState = "failed" THEN 1 ELSE 0)

\* a call may fail only while failures are left
MayFail(r, rec) == IF FaultsLeft(r, rec) > 0 THEN BOOLEAN ELSE {TRUE}

\* an outcome of a monitor or of the notifier is possible only if its failures
\* are left
Affordable(r, outcomes) ==
    {o \in outcomes : Cardinality(o.faults \ Forced) <= FaultsLeft(r, run[r])}

\* a store call succeeds or throws; it throws whenever the handle is not open
StoreOk(r, rec) == IF db = "open" THEN MayFail(r, rec) ELSE {FALSE}

\* an INSERT that creates the row with a terminal status
startRunCompleted(table) == Append(table, [status |-> "completed", duration_ms |-> <<>>])
\* MonitoringDatabase.startRun: INSERT INTO monitoring_runs (status) VALUES ('running')
startRun(table) == Append(table, [status |-> "running", duration_ms |-> <<>>])

\* an id that starts again at 1 for every INSERT
lastInsertRowidFirst(table) == 1
\* result.lastInsertRowid of the INSERT of startRun: id INTEGER PRIMARY KEY
\* AUTOINCREMENT, the id of the row just appended
lastInsertRowid(table) == Len(table)

\* an UPDATE whose WHERE clause matches no row
endRunNoMatch(table, runId, status, durationMs) == table
\* an endRun that is a no-op once the row has a terminal status
endRunOnce(table, runId, status, durationMs) ==
    IF table[runId].status = "running"
    THEN [table EXCEPT ![runId] = [status |-> status, duration_ms |-> <<durationMs>>]]
    ELSE table
\* the UPDATE of endRun that sets the duration and leaves the status
endRunDurationOnly(table, runId, status, durationMs) ==
    [table EXCEPT ![runId] = [@ EXCEPT !.duration_ms = <<durationMs>>]]
\* the UPDATE of endRun without the duration
endRunStatusOnly(table, runId, status, durationMs) ==
    [table EXCEPT ![runId] = [@ EXCEPT !.status = status]]
\* MonitoringDatabase.endRun: UPDATE monitoring_runs SET status = ?, duration_ms = ?
\* WHERE id = ?
endRun(table, runId, status, durationMs) ==
    [table EXCEPT ![runId] = [status |-> status, duration_ms |-> <<durationMs>>]]

\* an insert that replaces what the table held
insertManyReplacing(rows, runId, records) ==
    [i \in 1..Len(records) |-> [run_id |-> runId, record |-> records[i]]]
\* an insert that writes the records under the id of the newest run row
insertManyLatest(rows, runId, records) ==
    rows \o [i \in 1..Len(records) |->
                [run_id |-> Len(runsTable), record |-> records[i]]]
\* MonitoringDatabase.insert*: one transaction writing every record of the
\* batch under runId
insertMany(rows, runId, records) ==
    rows \o [i \in 1..Len(records) |-> [run_id |-> runId, record |-> records[i]]]

\* the statements of a batch run one by one with no transaction around them:
\* the records written before the failing one stay
transactionNone(rows, runId, records, failAt) ==
    IF failAt = 0
    THEN insertMany(rows, runId, records)
    ELSE insertMany(rows, runId, SubSeq(records, 1, failAt - 1))
\* this.db.transaction((records) => { for (...) stmt.run(...) }): the write of
\* record failAt throws (0: none does) and the transaction is rolled back
transaction(rows, runId, records, failAt) ==
    IF failAt = 0 THEN insertMany(rows, runId, records) ELSE rows

\* the record at which a batch insert may throw; with no open handle the call
\* throws before any record is written
InsertOutcomes(r, rec, records) ==
    IF db # "open" THEN {1}
    ELSE IF FaultsLeft(r, rec) > 0 THEN 0..Len(records) ELSE {0}

\* SalesforceAuth.getConnection: throws when this.conn is null
getConnectionThrows(conn) == conn = 0

\* MonitoringOrchestrator.initialize: the database, the notifier, then
\* authenticate(), which is retry(login) with the default three attempts
Initialize ==
    /\ initState = "new"
    /\ \E dbOk \in MayFail(1, run[1]), loginOk \in MayFail(1, run[1]) :
        IF ~dbOk
        THEN /\ db' = "unopened"
             /\ initState' = "failed"
             /\ UNCHANGED <<notifier, authConn, connSeq>>
        ELSE /\ db' = "open"
             /\ notifier' = [set |-> TRUE,
                             transporter |-> config.notifications.email.enabled]
             /\ IF loginOk
                   THEN /\ authConn' = connSeq + 1
                        /\ connSeq' = connSeq + 1
                        /\ initState' = "ok"
                   ELSE /\ initState' = "failed"
                        /\ UNCHANGED <<authConn, connSeq>>
    /\ UNCHANGED <<config, runsTable, errorRows, limitRows, anomalyRows, run>>
    /\ UNCHANGED <<retryVars, detVars>>

\* a return that reports success whatever happened
ResolvedSuccess(rec, ok, msg) ==
    [rec EXCEPT !.pc = "resolved",
                !.outcome = [kind |-> "resolved", success |-> TRUE, error |-> msg]]
\* return { success: true, ... } at the end of the try block, and
\* return { success: false, error: error.message } at the end of the catch block
Resolved(rec, ok, msg) ==
    [rec EXCEPT !.pc = "resolved",
                !.outcome = [kind |-> "resolved", success |-> ok, error |-> msg]]

\* an error thrown inside the catch block leaves run(): the promise rejects
Rejected(rec, msg) ==
    [rec EXCEPT !.pc = "rejected",
                !.outcome = [kind |-> "rejected", success |-> FALSE, error |-> msg]]

\* the history of a call of run(): the steps it reached, the failures it met
Did(rec, step) == [rec EXCEPT !.steps = Append(@, step)]
Fault(rec, labels) == [rec EXCEPT !.faults = @ \cup labels]

\* a catch block that invokes the notifier before it records the failure
CatchNotifying(r, rec, table, msg) ==
    \E d \in Elapsed, ok \in StoreOk(r, rec) :
        IF rec.runId = 0
        THEN /\ runsTable' = table
             /\ run' = [run EXCEPT ![r] = Resolved(Did(rec, "notify"), FALSE, msg)]
        ELSE IF ok
        THEN /\ runsTable' = endRun(table, rec.runId, "failed", d)
             /\ run' = [run EXCEPT ![r] =
                          Resolved(Did(Did(rec, "notify"), "endRun:failed"), FALSE, msg)]
        ELSE /\ runsTable' = table
             /\ run' = [run EXCEPT ![r] =
                          Rejected(Fault(Did(Did(rec, "notify"), "endRun:failed"),
                                         {"endRun:failed"}),
                                   "err:endRun")]
\* the catch block of run(): if (runId) endRun(runId, 'failed', duration); then
\* return { success: false, error: error.message }.  A throwing endRun leaves
\* the block, and run() rejects.
Catch(r, rec, table, msg) ==
    \E d \in Elapsed, ok \in StoreOk(r, rec) :
        IF rec.runId = 0
        THEN /\ runsTable' = table
             /\ run' = [run EXCEPT ![r] = Resolved(rec, FALSE, msg)]
        ELSE IF ok
        THEN /\ runsTable' = endRun(table, rec.runId, "failed", d)
             /\ run' = [run EXCEPT ![r] = Resolved(Did(rec, "endRun:failed"), FALSE, msg)]
        ELSE /\ runsTable' = table
             /\ run' = [run EXCEPT ![r] =
                          Rejected(Fault(Did(rec, "endRun:failed"), {"endRun:failed"}),
                                   "err:endRun")]

\* run() is called: startRun() and getConnection()
RunCall(r) ==
    /\ run[r].pc = "idle"
    /\ (IF r = 1 THEN TRUE ELSE run[r - 1].pc # "idle")
    /\ \E ok \in StoreOk(r, run[r]) :
        LET rec0 == Did(run[r], "startRun") IN
        IF ~ok
        THEN Catch(r, Fault(rec0, {"startRun"}), runsTable, "err:startRun")
        ELSE LET table == startRun(runsTable)
                 rec1 == Did([rec0 EXCEPT !.runId = lastInsertRowid(table)], "getConnection")
             IN  IF getConnectionThrows(authConn)
                 THEN Catch(r, Fault(rec1, {"getConnection"}), table, "Not authenticated")
                 ELSE /\ runsTable' = table
                      /\ run' = [run EXCEPT ![r] =
                                   [rec1 EXCEPT !.conn = authConn, !.pc = "debugLogs"]]
    /\ UNCHANGED <<config, initState, db, notifier, authConn, connSeq,
                   errorRows, limitRows, anomalyRows>>
    /\ UNCHANGED <<retryVars, detVars>>

\* if (config.monitoring.enabled.debugLogs): monitor(), then
\* insertDebugLogErrors if there are errors
RunDebugLogs(r) ==
    /\ run[r].pc = "debugLogs"
    /\ IF ~config.monitoring.enabled.debugLogs
       THEN /\ run' = [run EXCEPT ![r].pc = "governorLimits"]
            /\ UNCHANGED <<runsTable, errorRows>>
       ELSE \E o \in Affordable(r, DebugLogMonitor(config)) :
            LET rec1 == Fault(Did(run[r], "monitor:debugLogs"), o.faults) IN
            IF o.raised
            THEN /\ Catch(r, rec1, runsTable, o.error)
                 /\ UNCHANGED errorRows
            ELSE LET rec2 == [rec1 EXCEPT !.results.debugLogs = o.records,
                                          !.pc = "governorLimits"]
                 IN  IF Len(o.records[1].errors) > 0
                     THEN \E failAt \in InsertOutcomes(r, rec2, o.records[1].errors) :
                          /\ errorRows' = transaction(errorRows, rec2.runId,
                                                      o.records[1].errors, failAt)
                          /\ IF failAt = 0
                             THEN /\ run' = [run EXCEPT ![r] = Did(rec2, "insert:errors")]
                                  /\ UNCHANGED runsTable
                             ELSE Catch(r, Fault(Did(rec2, "insert:errors"),
                                                 {"insert:errors"}),
                                        runsTable, "err:insertDebugLogErrors")
                     ELSE /\ run' = [run EXCEPT ![r] = rec2]
                          /\ UNCHANGED <<runsTable, errorRows>>
    /\ UNCHANGED <<config, initState, db, notifier, authConn, connSeq,
                   limitRows, anomalyRows>>
    /\ UNCHANGED <<retryVars, detVars>>

\* if (config.monitoring.enabled.governorLimits): monitor(), then
\* insertGovernorLimits if there is limit data
RunGovernorLimits(r) ==
    /\ run[r].pc = "governorLimits"
    /\ IF ~config.monitoring.enabled.governorLimits
       THEN /\ run' = [run EXCEPT ![r].pc = "codeQuality"]
            /\ UNCHANGED <<runsTable, limitRows>>
       ELSE \E o \in Affordable(r, GovernorLimitMonitor(config)) :
            LET rec1 == Fault(Did(run[r], "monitor:governorLimits"), o.faults) IN
            IF o.raised
            THEN /\ Catch(r, rec1, runsTable, o.error)
                 /\ UNCHANGED limitRows
            ELSE LET rec2 == [rec1 EXCEPT !.results.governorLimits = o.records,
                                          !.pc = "codeQuality"]
                 IN  IF Len(o.records[1].limitData) > 0
                     THEN \E failAt \in InsertOutcomes(r, rec2, o.records[1].limitData) :
                          /\ limitRows' = transaction(limitRows, rec2.runId,
                                                      o.records[1].limitData, failAt)
                          /\ IF failAt = 0
                             THEN /\ run' = [run EXCEPT ![r] = Did(rec2, "insert:limits")]
                                  /\ UNCHANGED runsTable
                             ELSE Catch(r, Fault(Did(rec2, "insert:limits"),
                                                 {"insert:limits"}),
                                        runsTable, "err:insertGovernorLimits")
                     ELSE /\ run' = [run EXCEPT ![r] = rec2]
                          /\ UNCHANGED <<runsTable, limitRows>>
    /\ UNCHANGED <<config, initState, db, notifier, authConn, connSeq,
                   errorRows, anomalyRows>>
    /\ UNCHANGED <<retryVars, detVars>>

\* if (config.monitoring.enabled.codeQuality): monitor(), nothing is stored;
\* then anomalyDetector.detect(results) and insertAnomalies if there are
\* anomalies, all before the next await
RunCodeQuality(r) ==
    /\ run[r].pc = "codeQuality"
    /\ \E o \in (IF config.monitoring.enabled.codeQuality
                 THEN Affordable(r, CodeQualityMonitor(config))
                 ELSE {[raised |-> FALSE, error |-> "", records |-> <<>>,
                        faults |-> {}]}) :
        LET rec0 == IF config.monitoring.enabled.codeQuality
                    THEN Fault(Did(run[r], "monitor:codeQuality"), o.faults)
                    ELSE run[r]
        IN
        IF o.raised
        THEN /\ Catch(r, rec0, runsTable, o.error)
             /\ UNCHANGED anomalyRows
        ELSE LET results == [rec0.results EXCEPT !.codeQuality = o.records]
                 anomalies == detect(results, config)
                 rec1 == [Did(rec0, "detect") EXCEPT !.results = results,
                                                    !.anomalies = anomalies,
                                                    !.pc = "notify"]
             IN  IF Len(anomalies) > 0
                 THEN \E failAt \in InsertOutcomes(r, rec1, anomalies) :
                      /\ anomalyRows' = transaction(anomalyRows, rec1.runId,
                                                    anomalies, failAt)
                      /\ IF failAt = 0
                         THEN /\ run' = [run EXCEPT ![r] = Did(rec1, "insert:anomalies")]
                              /\ UNCHANGED runsTable
                         ELSE Catch(r, Fault(Did(rec1, "insert:anomalies"),
                                             {"insert:anomalies"}),
                                    runsTable, "err:insertAnomalies")
                 ELSE /\ run' = [run EXCEPT ![r] = rec1]
                      /\ UNCHANGED <<runsTable, anomalyRows>>
    /\ UNCHANGED <<config, initState, db, notifier, authConn, connSeq,
                   errorRows, limitRows>>
    /\ UNCHANGED <<retryVars, detVars>>

\* await this.notifier.notify(anomalies, results); then
\* endRun(runId, 'completed', duration) and return { success: true, ... }
RunNotify(r) ==
    /\ run[r].pc = "notify"
    /\ \E o \in Affordable(r, notify(config, notifier.transporter, run[r].anomalies)) :
        LET rec1 == [Fault(Did(run[r], "notify"), o.faults) EXCEPT
                        !.notified = o.status]
        IN  IF o.raised
            THEN Catch(r, rec1, runsTable, "err:notify")
            ELSE \E d \in Elapsed, ok \in StoreOk(r, rec1) :
                 LET rec2 == Did(rec1, "endRun:completed") IN
                 IF ok
                 THEN /\ runsTable' = endRun(runsTable, rec2.runId, "completed", d)
                      /\ run' = [run EXCEPT ![r] = Resolved(rec2, TRUE, "")]
                 ELSE Catch(r, Fault(rec2, {"endRun:completed"}), runsTable,
                            "err:endRun")
    /\ UNCHANGED <<config, initState, db, notifier, authConn, connSeq,
                   errorRows, limitRows, anomalyRows>>
    /\ UNCHANGED <<retryVars, detVars>>

\* no detector under test: AnomalyDetector objects live inside run()
DetIdle ==
    /\ dPc = "input"
    /\ dResults = NoResults
    /\ dConfig = Config(TRUE, TRUE, TRUE, TRUE, FALSE)
    /\ dStore = 0
    /\ dFirst = <<>>
    /\ dSecond = <<>>

\* no main(): the orchestrator is driven directly
MainIdle ==
    /\ mainPc = "start"
    /\ runOnce = FALSE
    /\ task = "null"
    /\ handlers = FALSE
    /\ exitCode = <<>>
    /\ signal = ""
    /\ closes = 0
    /\ ticks = 0

\* no call on the SalesforceAuth object is recorded
AuthIdle == authLog = <<>>

\* no direct call on the store is recorded
StoreIdle == storeLog = <<>>

Init == RetryInit /\ OrchInit /\ DetIdle /\ MainIdle /\ AuthIdle /\ StoreIdle /\ config \in Configs

Next ==
    \/ Initialize /\ UNCHANGED procVars
    \/ \E r \in Runs : RunCall(r) /\ UNCHANGED procVars
    \/ \E r \in Runs : RunDebugLogs(r) /\ UNCHANGED procVars
    \/ \E r \in Runs : RunGovernorLimits(r) /\ UNCHANGED procVars
    \/ \E r \in Runs : RunCodeQuality(r) /\ UNCHANGED procVars
    \/ \E r \in Runs : RunNotify(r) /\ UNCHANGED procVars

Spec == Init /\ [][Next]_vars

\* a call of run() suspended at an await goes on: the remote call, the store
\* call or the notifier call it waits for returns or raises
RunStep(r) ==
    /\ \/ RunDebugLogs(r)
       \/ RunGovernorLimits(r)
       \/ RunCodeQuality(r)
       \/ RunNotify(r)
    /\ UNCHANGED procVars

\* the orchestrator with every awaited call settling
SpecLive == Init /\ [][Next]_vars /\ \A r \in Runs : WF_vars(RunStep(r))

RetryNext ==
    \/ RetryCall /\ UNCHANGED <<orchVars, detVars, procVars>>
    \/ RetryAttemptOk /\ UNCHANGED <<orchVars, detVars, procVars>>
    \/ RetryAttemptFail /\ UNCHANGED <<orchVars, detVars, procVars>>
    \/ RetryWake /\ UNCHANGED <<orchVars, detVars, procVars>>

InitRetry ==
    /\ RetryInit /\ OrchInit /\ DetIdle /\ MainIdle /\ AuthIdle /\ StoreIdle
    /\ config = Config(TRUE, TRUE, TRUE, TRUE, FALSE)

SpecRetry == InitRetry /\ [][RetryNext]_vars

\* ----------------------------------------------------------------------
\* the detector on its own: detect() applied to the snapshots the monitors build
\* ----------------------------------------------------------------------
TypeNames == <<"T1", "T2", "T3", "T4", "T5", "T6", "T7", "T8">>

\* n errors of k distinct types, as queryDebugLogs maps the ApexLog rows
ErrorList(n, k) ==
    [i \in 1..n |-> [errorType |-> TypeNames[((i - 1) % k) + 1], className |-> "ClsA"]]

\* the shapes <<n, k>> of the error lists tried: none, few, as many types as
\* the fixed limit of MULTIPLE_ERROR_TYPES and one more
ErrorShapes ==
    {<<0, 1>>, <<2, 1>>, <<2, 2>>, <<3, 1>>, <<3, 3>>,
     <<MaxTypes - 1, 1>>, <<MaxTypes - 1, MaxTypes - 1>>,
     <<MaxTypes, 1>>, <<MaxTypes, MaxTypes>>,
     <<MaxErrors, 1>>, <<MaxErrors, MaxTypes>>}

ErrorLists == {ErrorList(sh[1], sh[2]) : sh \in ErrorShapes}
ErrorListsFew == {ErrorList(0, 1), ErrorList(3, 1), ErrorList(MaxTypes, MaxTypes)}

LimitRecord(name, soql, dml, cpu, heap) ==
    [className |-> name, soqlQueriesUsed |-> soql, dmlStatementsUsed |-> dml,
     cpuTimeUsed |-> cpu, heapSizeUsed |-> heap]

\* limit records: 95 % of the SOQL queries; 89.96 % of the CPU time; exactly
\* 70 % of the SOQL queries; 85.3 % of the DML statements; 10 % at most
LimitRecords ==
    { LimitRecord("ClsA", 95, 15, 100, 6000),
      LimitRecord("ClsB", 50, 15, 8996, 6000),
      LimitRecord("ClsC", 70, 15, 100, 6000),
      LimitRecord("ClsD", 10, 128, 100, 6000),
      LimitRecord("ClsE", 10, 15, 100, 6000) }

LimitLists == SeqsUpTo(LimitRecords, MaxInputs)
LimitListsFew ==
    { <<>>, <<LimitRecord("ClsA", 95, 15, 100, 6000)>>,
      <<LimitRecord("ClsD", 10, 128, 100, 6000), LimitRecord("ClsC", 70, 15, 100, 6000)>> }

\* classes: one issue; every metric exactly at its threshold; three issues;
\* no issue with a known coverage
ClassRecords ==
    { [name |-> "K1", length |-> 10, complexity |-> 16, testCoverage |-> <<>>],
      [name |-> "K2", length |-> 1000, complexity |-> 15, testCoverage |-> <<75>>],
      [name |-> "K3", length |-> 1001, complexity |-> 20, testCoverage |-> <<50>>],
      [name |-> "K4", length |-> 10, complexity |-> 0, testCoverage |-> <<>>] }

ClassLists == SeqsUpTo(ClassRecords, MaxInputs)
ClassListsFew ==
    { <<>>, <<[name |-> "K1", length |-> 10, complexity |-> 16, testCoverage |-> <<>>]>>,
      <<[name |-> "K3", length |-> 1001, complexity |-> 20, testCoverage |-> <<50>>],
        [name |-> "K1", length |-> 10, complexity |-> 16, testCoverage |-> <<>>]>> }

\* the configurations of the detector: the thresholds vary
DetConfig(abs, soql, other) ==
    [Config(TRUE, TRUE, TRUE, TRUE, FALSE) EXCEPT
        !.thresholds.errorRate.absoluteCount = abs,
        !.thresholds.governorLimits.soqlQueries = soql,
        !.thresholds.governorLimits.dmlStatements = other,
        !.thresholds.governorLimits.cpuTime = other]

DetConfigs == {DetConfig(3, 70, 70), DetConfig(MaxErrors, 70, 10), DetConfig(3, 85, 70)}

\* results.debugLogs, results.governorLimits, results.codeQuality as the three
\* monitor() build them
ErrorSnapshot(errors) == [errors |-> errors, summary |-> analyzeErrors(errors)]
LimitSnapshot(limitData, cfg) ==
    [limitData |-> limitData,
     analysis |-> analyzeLimits(limitData, cfg.thresholds.governorLimits)]
QualitySnapshot(classes, cfg) ==
    [classes |-> classes, issues |-> identifyIssues(classes, cfg.thresholds.codeQuality)]

\* the inputs: one of the three lists ranges over all its values while the
\* other two range over a few
DetInputs ==
    (ErrorLists \X LimitListsFew \X ClassListsFew)
    \cup (ErrorListsFew \X LimitLists \X ClassListsFew)
    \cup (ErrorListsFew \X LimitListsFew \X ClassLists)

\* which monitors were enabled: all, or all but one
Enabled == {<<TRUE, TRUE, TRUE>>, <<FALSE, TRUE, TRUE>>, <<TRUE, FALSE, TRUE>>,
            <<TRUE, TRUE, FALSE>>}

DetInit ==
    /\ dPc = "input"
    /\ dConfig \in DetConfigs
    /\ \E inp \in DetInputs, en \in Enabled :
          dResults =
            [debugLogs |-> IF en[1] THEN <<ErrorSnapshot(inp[1])>> ELSE <<>>,
             governorLimits |-> IF en[2] THEN <<LimitSnapshot(inp[2], dConfig)>> ELSE <<>>,
             codeQuality |-> IF en[3] THEN <<QualitySnapshot(inp[3], dConfig)>> ELSE <<>>]
    /\ dStore = 0
    /\ dFirst = <<>>
    /\ dSecond = <<>>

\* const anomalies = anomalyDetector.detect(results)
DetectFirst ==
    /\ dPc = "input"
    /\ dFirst' = detect(dResults, dConfig)
    /\ dPc' = "once"
    /\ UNCHANGED <<dResults, dConfig, dStore, dSecond>>
    /\ UNCHANGED <<retryVars, orchVars>>

\* a run stores error rows: this.db of the detector changes
StoreGrows ==
    /\ dPc = "once"
    /\ dStore = 0
    /\ dStore' = dStore + 1
    /\ UNCHANGED <<dPc, dResults, dConfig, dFirst, dSecond>>
    /\ UNCHANGED <<retryVars, orchVars>>

\* detect(results) once more on the same results
DetectSecond ==
    /\ dPc = "once"
    /\ dSecond' = detect(dResults, dConfig)
    /\ dPc' = "twice"
    /\ UNCHANGED <<dResults, dConfig, dStore, dFirst>>
    /\ UNCHANGED <<retryVars, orchVars>>

DetNext ==
    \/ DetectFirst /\ UNCHANGED procVars
    \/ StoreGrows /\ UNCHANGED procVars
    \/ DetectSecond /\ UNCHANGED procVars

InitDetect ==
    /\ RetryInit /\ OrchInit /\ DetInit /\ MainIdle /\ AuthIdle /\ StoreIdle
    /\ config = Config(TRUE, TRUE, TRUE, TRUE, FALSE)

SpecDetect == InitDetect /\ [][DetNext]_vars

\* ======================================================================
\* index.js (main), scheduler.js
\* ======================================================================
\* the configurations main() is run with: everything enabled, with and without
\* e-mail and report file
MainConfigs ==
    { Config(TRUE, TRUE, TRUE, TRUE, FALSE), Config(TRUE, TRUE, TRUE, TRUE, TRUE) }

Signals == {"SIGINT", "SIGTERM"}

\* process.exit(0) in the catch block
fatalExitClean == <<0>>
\* process.exit(1) in the catch block of main()
fatalExit == <<1>>

\* process.exit(0) after the one-shot run and in the signal handlers
cleanExit == <<0>>

\* an exit code that follows the success flag run() returned
onceExitBySuccess(result) == IF result.success THEN <<0>> ELSE <<1>>
\* process.exit(0) after await orchestrator.run(): the value run() returned is
\* not looked at
onceExit(result) == cleanExit

\* Scheduler.stop: if (this.task) this.task.stop()
stop(t) == IF t = "null" THEN t ELSE "stopped"

\* MonitoringOrchestrator.cleanup: if (this.db) this.db.close(), and
\* MonitoringDatabase.close: if (this.db) this.db.close() on the handle
Cleanup ==
    /\ db' = IF db = "open" THEN "closed" ELSE db
    /\ closes' = IF db \in {"open", "closed"} THEN closes + 1 ELSE closes

\* a call of run() that has passed startRun and getConnection and has not
\* returned
InFlight(r) == run[r].pc \in {"debugLogs", "governorLimits", "codeQuality", "notify"}

\* the promise main() awaits has settled: the rest of main() runs before any
\* timer or signal is served
MainResumes ==
    IF mainPc = "awaitRun" THEN run[1].pc \in {"resolved", "rejected"}
    ELSE mainPc = "initialized"

\* the process is alive and serves timers, signals and the runs' remote calls
Serving == mainPc \in {"awaitRun", "serving"} /\ ~MainResumes

\* a cron callback that skips the trigger while a run is in flight
cronCallbackSkipping(r) ==
    IF \E q \in Runs : InFlight(q)
    THEN UNCHANGED <<orchVars, retryVars, detVars>>
    ELSE RunCall(r)
\* the callback of cron.schedule: async () => { await this.orchestrator.run() }
cronCallback(r) == RunCall(r)

MainInit ==
    /\ mainPc = "start"
    /\ runOnce \in BOOLEAN
    /\ task = "null"
    /\ handlers = FALSE
    /\ exitCode = <<>>
    /\ signal = ""
    /\ closes = 0
    /\ ticks = 0

\* await orchestrator.initialize()
MainInitialize ==
    /\ mainPc = "start"
    /\ Initialize
    /\ mainPc' = "initialized"
    /\ UNCHANGED <<runOnce, task, handlers, exitCode, signal, closes, ticks, authLog, storeLog>>

\* the catch block of main(): initialize() or the awaited run() rejected;
\* cleanup() and process.exit(1)
MainCatch ==
    /\ IF mainPc = "initialized" THEN initState = "failed"
       ELSE mainPc = "awaitRun" /\ run[1].pc = "rejected"
    /\ Cleanup
    /\ exitCode' = fatalExit
    /\ mainPc' = "exited"
    /\ UNCHANGED <<runOnce, task, handlers, signal, ticks, authLog, storeLog>>
    /\ UNCHANGED <<config, initState, notifier, authConn, connSeq, runsTable,
                   errorRows, limitRows, anomalyRows, run>>
    /\ UNCHANGED <<retryVars, detVars>>

\* if (runOnce): orchestrator.run() is called and awaited
MainRunOnce ==
    /\ mainPc = "initialized"
    /\ initState = "ok"
    /\ runOnce
    /\ RunCall(1)
    /\ mainPc' = "awaitRun"
    /\ UNCHANGED <<runOnce, task, handlers, exitCode, signal, closes, ticks, authLog, storeLog>>

\* the one-shot run has resolved: orchestrator.cleanup() and process.exit(0)
MainOnceDone ==
    /\ mainPc = "awaitRun"
    /\ runOnce
    /\ run[1].pc = "resolved"
    /\ Cleanup
    /\ exitCode' = onceExit(run[1].outcome)
    /\ mainPc' = "exited"
    /\ UNCHANGED <<runOnce, task, handlers, signal, ticks, authLog, storeLog>>
    /\ UNCHANGED <<config, initState, notifier, authConn, connSeq, runsTable,
                   errorRows, limitRows, anomalyRows, run>>
    /\ UNCHANGED <<retryVars, detVars>>

\* else: scheduler.start() schedules the cron task, then orchestrator.run() is
\* called at once and awaited
MainContinuous ==
    /\ mainPc = "initialized"
    /\ initState = "ok"
    /\ ~runOnce
    /\ task' = "scheduled"
    /\ RunCall(1)
    /\ mainPc' = "awaitRun"
    /\ UNCHANGED <<runOnce, handlers, exitCode, signal, closes, ticks, authLog, storeLog>>

\* the startup run has resolved: process.on('SIGINT', ...) and
\* process.on('SIGTERM', ...), and main() returns
MainHandlers ==
    /\ mainPc = "awaitRun"
    /\ ~runOnce
    /\ run[1].pc = "resolved"
    /\ handlers' = TRUE
    /\ mainPc' = "serving"
    /\ UNCHANGED <<runOnce, task, exitCode, signal, closes, ticks, authLog, storeLog>>
    /\ UNCHANGED <<orchVars, retryVars, detVars>>

\* the cron task fires and its callback calls run(); a rejection of that call
\* is not observed by the code
CronTick ==
    /\ Serving
    /\ task = "scheduled"
    /\ \E r \in Runs \ {1} : cronCallback(r)
    /\ ticks' = ticks + 1
    /\ UNCHANGED <<mainPc, runOnce, task, handlers, exitCode, signal, closes, authLog, storeLog>>

\* SIGINT or SIGTERM arrives once the scheduler has started.  With the handler
\* registered: scheduler.stop(), orchestrator.cleanup(), process.exit(0).
\* Without it the default disposition ends the process at once.
Signal(sig) ==
    /\ Serving
    /\ task = "scheduled"
    /\ signal' = sig
    /\ mainPc' = "exited"
    /\ IF handlers
       THEN /\ task' = stop(task)
            /\ Cleanup
            /\ exitCode' = cleanExit
       ELSE UNCHANGED <<task, db, closes, exitCode>>
    /\ UNCHANGED <<runOnce, handlers, ticks, authLog, storeLog>>
    /\ UNCHANGED <<config, initState, notifier, authConn, connSeq, runsTable,
                   errorRows, limitRows, anomalyRows, run>>
    /\ UNCHANGED <<retryVars, detVars>>

MainNext ==
    \/ MainInitialize
    \/ MainCatch
    \/ MainRunOnce
    \/ MainOnceDone
    \/ MainContinuous
    \/ MainHandlers
    \/ CronTick
    \/ \E sig \in Signals : Signal(sig)
    \/ \E r \in Runs : Serving /\ RunDebugLogs(r) /\ UNCHANGED procVars
    \/ \E r \in Runs : Serving /\ RunGovernorLimits(r) /\ UNCHANGED procVars
    \/ \E r \in Runs : Serving /\ RunCodeQuality(r) /\ UNCHANGED procVars
    \/ \E r \in Runs : Serving /\ RunNotify(r) /\ UNCHANGED procVars

InitMain ==
    /\ RetryInit /\ OrchInit /\ DetIdle /\ MainInit /\ AuthIdle /\ StoreIdle
    /\ config \in MainConfigs

SpecMain == InitMain /\ [][MainNext]_vars

\* ======================================================================
\* auth/salesforce-auth.js: authenticate and getConnection called in any order
\* ======================================================================
\* this.conn is assigned before the login is attempted
authenticateEager(conn, fresh, loginOk) == fresh
\* SalesforceAuth.authenticate: this.conn = conn is reached only when
\* retry(login) returned; when it threw, this.conn is left as it was
authenticate(conn, fresh, loginOk) == IF loginOk THEN fresh ELSE conn

\* salesforceAuth.authenticate(): a new jsforce.Connection, then the login
Authenticate ==
    /\ Len(authLog) < MaxCalls
    /\ \E loginOk \in BOOLEAN :
        /\ connSeq' = connSeq + 1
        /\ authConn' = authenticate(authConn, connSeq + 1, loginOk)
        /\ authLog' = Append(authLog, [op |-> "authenticate", threw |-> ~loginOk,
                                       conn |-> IF loginOk THEN connSeq + 1 ELSE 0])
    /\ UNCHANGED <<config, initState, db, notifier, runsTable, errorRows,
                   limitRows, anomalyRows, run>>
    /\ UNCHANGED <<retryVars, detVars, mainVars, storeLog>>

\* salesforceAuth.getConnection()
GetConnection ==
    /\ Len(authLog) < MaxCalls
    /\ authLog' = Append(authLog,
                         [op |-> "getConnection",
                          threw |-> getConnectionThrows(authConn),
                          conn |-> IF getConnectionThrows(authConn) THEN 0
                                   ELSE authConn])
    /\ UNCHANGED <<orchVars, retryVars, detVars, mainVars, storeLog>>

AuthNext ==
    \/ Authenticate
    \/ GetConnection

InitAuth ==
    /\ RetryInit /\ OrchInit /\ DetIdle /\ MainIdle /\ AuthIdle /\ StoreIdle
    /\ config = Config(TRUE, TRUE, TRUE, TRUE, FALSE)

SpecAuth == InitAuth /\ [][AuthNext]_vars

\* ======================================================================
\* storage/database.js: startRun and endRun called directly, in any order
\* ======================================================================
\* the durations a caller passes to endRun
Durations == {5, 7}

\* db.startRun()
StoreStartRun ==
    /\ Len(storeLog) < MaxStoreCalls
    /\ Len(runsTable) < MaxRuns
    /\ runsTable' = startRun(runsTable)
    /\ storeLog' = Append(storeLog,
                          [op |-> "startRun",
                           runId |-> lastInsertRowid(startRun(runsTable)),
                           status |-> "running", durationMs |-> 0])
    /\ UNCHANGED <<config, initState, db, notifier, authConn, connSeq,
                   errorRows, limitRows, anomalyRows, run>>
    /\ UNCHANGED <<retryVars, detVars, mainVars, authLog>>

\* db.endRun(runId, status, durationMs) on the id of an existing row
StoreEndRun ==
    /\ Len(storeLog) < MaxStoreCalls
    /\ \E runId \in 1..Len(runsTable), status \in {"completed", "failed"},
          durationMs \in Durations :
        /\ runsTable' = endRun(runsTable, runId, status, durationMs)
        /\ storeLog' = Append(storeLog,
                              [op |-> "endRun", runId |-> runId,
                               status |-> status, durationMs |-> durationMs])
    /\ UNCHANGED <<config, initState, db, notifier, authConn, connSeq,
                   errorRows, limitRows, anomalyRows, run>>
    /\ UNCHANGED <<retryVars, detVars, mainVars, authLog>>

StoreNext ==
    \/ StoreStartRun
    \/ StoreEndRun

InitStore ==
    /\ RetryInit /\ OrchInit /\ DetIdle /\ MainIdle /\ AuthIdle /\ StoreIdle
    /\ config = Config(TRUE, TRUE, TRUE, TRUE, FALSE)

SpecStore == InitStore /\ [][StoreNext]_vars

Min(a, b) == IF a <= b THEN a ELSE b

\* C1: after the failure of attempt k < maxRetries the executor sleeps exactly
\* delay * 2^(k-1) before attempt k+1 starts, and it never sleeps after the
\* failure of the last attempt: the k-th sleep is delay * 2^(k-1), there is one
\* sleep per failed attempt below maxRetries and none for the last, and fn is
\* not invoked again while a sleep is pending.
C1_BackoffSchedule ==
    (retryPc # "idle" /\ maxRetries >= 1) =>
        /\ \A k \in 1..Len(sleeps) : sleeps[k] = delay * Pow2(k - 1)
        /\ Len(sleeps) = Min(Len(fnErrors), maxRetries - 1)
        /\ fnCalls <= Len(sleeps) + 1
        /\ (retryPc = "sleeping" => fnCalls = Len(sleeps))

\* maxRetries = 3, delay = 1000, always failing: the sleeps are 1000 then 2000
C1_Witness ==
    /\ retryPc = "thrown"
    /\ maxRetries = 3
    /\ delay = 1000
    /\ sleeps = <<1000, 2000>>

\* C2: for maxRetries >= 1 an operation that always fails is invoked exactly
\* maxRetries times, one invocation after the other, and retry then throws the
\* error of the last attempt unchanged; with maxRetries = 1 there is one
\* invocation and no sleep.
C2_ExhaustedRetries ==
    (retryPc # "idle" /\ maxRetries >= 1) =>
        /\ fnCalls <= maxRetries
        /\ Len(fnErrors) <= fnCalls
        /\ (retryPc = "thrown" =>
              /\ fnCalls = maxRetries
              /\ Len(fnErrors) = maxRetries
              /\ retryResult = [kind |-> "throw", value |-> fnErrors[maxRetries]]
              /\ (maxRetries = 1 => sleeps = <<>>))

\* three failures with different errors: the last one is thrown
C2_Witness ==
    /\ retryPc = "thrown"
    /\ maxRetries = 3
    /\ fnErrors = <<"e1", "e1", "e2">>
    /\ retryResult = [kind |-> "throw", value |-> "e2"]

NumOf(level) == Cardinality({i \in 1..Len(logs) : logs[i].level = level})

\* C3 as stated: an execution that exhausts maxRetries attempts has produced
\* one failure report per failed attempt, the last included, plus one
\* exhaustion report.
C3_ReportPerFailedAttempt ==
    (retryPc = "thrown" /\ maxRetries >= 1) =>
        /\ NumOf("warn") = Len(fnErrors)
        /\ NumOf("error") = 1

\* C3 as amended: every failed attempt but the last is reported by one warning
\* carrying its number, its error and the backoff; the last failed attempt has
\* no warning of its own and is reported through the single exhaustion report,
\* which carries the last error: maxRetries reports in all.
C3_Reports ==
    (retryPc # "idle" /\ maxRetries >= 1) =>
        /\ \A k \in 1..Len(fnErrors) :
              k < maxRetries =>
                /\ Len(logs) >= k
                /\ logs[k] = [level |-> "warn", attempt |-> k,
                              backoff |-> delay * Pow2(k - 1), error |-> fnErrors[k]]
        /\ NumOf("warn") = Min(Len(fnErrors), maxRetries - 1)
        /\ (retryPc = "thrown" =>
              /\ Len(logs) = maxRetries
              /\ logs[maxRetries] = [level |-> "error", attempt |-> maxRetries,
                                      backoff |-> 0, error |-> fnErrors[maxRetries]])
        /\ (retryPc # "thrown" => NumOf("error") = 0)

\* three failed attempts: two warnings and the exhaustion report
C3_Witness ==
    /\ retryPc = "thrown"
    /\ maxRetries = 3
    /\ Len(fnErrors) = 3
    /\ Len(logs) = 3

\* ----------------------------------------------------------------------
\* the runs
\* ----------------------------------------------------------------------
Settled(r) == run[r].pc \in {"resolved", "rejected"}

Has(rec, step) == \E i \in 1..Len(rec.steps) : rec.steps[i] = step

LastStep(rec) == rec.steps[Len(rec.steps)]

\* the rows a table holds for a run id
RowsOf(rows, id) == {i \in 1..Len(rows) : rows[i].run_id = id}

MonitorSteps == {"monitor:debugLogs", "monitor:governorLimits", "monitor:codeQuality"}
InsertSteps == {"insert:errors", "insert:limits", "insert:anomalies"}
QueryFaults == {"query:EventLogFile", "query:ApexLog", "query:ApexLogLimits",
                "query:ApexClass", "query:SymbolTable"}
NotifyFaults == {"notify:generateReport", "notify:saveReport", "notify:sendEmail"}

InsertError(label) ==
    CASE label = "insert:errors" -> "err:insertDebugLogErrors"
      [] label = "insert:limits" -> "err:insertGovernorLimits"
      [] label = "insert:anomalies" -> "err:insertAnomalies"

FailedRow(row) == row.status = "failed" /\ row.duration_ms \in {<<d>> : d \in Elapsed}
CompletedRow(row) == row.status = "completed" /\ row.duration_ms \in {<<d>> : d \in Elapsed}
RunningRow(row) == row = [status |-> "running", duration_ms |-> <<>>]

C5_MonitorRaiseAbsorbed ==
    \A r \in Runs :
        (/\ Settled(r)
         /\ run[r].runId # 0
         /\ run[r].faults # {}
         /\ run[r].faults \subseteq QueryFaults \cup {"lookback"}) =>
            /\ runsTable[run[r].runId].status = "completed"
            /\ (config.monitoring.enabled.debugLogs => Has(run[r], "monitor:debugLogs"))
            /\ (config.monitoring.enabled.governorLimits =>
                    Has(run[r], "monitor:governorLimits"))
            /\ (config.monitoring.enabled.codeQuality => Has(run[r], "monitor:codeQuality"))

\* the step that follows the first occurrence of step in a run's history is
\* not the catch block's endRun
Continues(rec, step) ==
    \A i \in 1..Len(rec.steps) :
        rec.steps[i] = step =>
            /\ (i < Len(rec.steps) => rec.steps[i + 1] # "endRun:failed")
            /\ (i = Len(rec.steps) => rec.pc \notin {"resolved", "rejected"})

\* C6 as stated: whichever remote query of a monitor fails, the monitor's
\* snapshot has zero records.
C6_QueryFailureEmptySnapshot ==
    \A r \in Runs :
        LET rec == run[r] IN
        /\ (rec.faults \cap {"query:EventLogFile", "query:ApexLog"} # {} =>
                /\ rec.results.debugLogs # <<>>
                /\ rec.results.debugLogs[1].errors = <<>>)
        /\ ("query:ApexLogLimits" \in rec.faults =>
                /\ rec.results.governorLimits # <<>>
                /\ rec.results.governorLimits[1].limitData = <<>>)
        /\ (rec.faults \cap {"query:ApexClass", "query:SymbolTable"} # {} =>
                /\ rec.results.codeQuality # <<>>
                /\ rec.results.codeQuality[1].classes = <<>>)

\* C6 as amended: for each of the three monitors a failed remote query is not
\* propagated by monitor() and the run continues with the next step.  When the
\* failed query is the one that lists the records (EventLogFile or ApexLog for
\* the debug logs, ApexLog for the limits, ApexClass for the code quality) the
\* snapshot has zero records; when it is the SymbolTable query of a class, the
\* class stays in the snapshot with complexity 0.
C6_QueryFailureAbsorbed ==
    \A r \in Runs :
        LET rec == run[r] IN
        /\ rec.outcome.error \notin QueryFaults
        /\ (rec.faults \cap {"query:EventLogFile", "query:ApexLog"} # {} =>
                /\ rec.results.debugLogs # <<>>
                /\ rec.results.debugLogs[1].errors = <<>>
                /\ rec.results.debugLogs[1].summary = analyzeErrors(<<>>)
                /\ ~Has(rec, "insert:errors")
                /\ Continues(rec, "monitor:debugLogs"))
        /\ ("query:ApexLogLimits" \in rec.faults =>
                /\ rec.results.governorLimits # <<>>
                /\ rec.results.governorLimits[1].limitData = <<>>
                /\ ~Has(rec, "insert:limits")
                /\ Continues(rec, "monitor:governorLimits"))
        /\ ("query:ApexClass" \in rec.faults =>
                /\ rec.results.codeQuality # <<>>
                /\ rec.results.codeQuality[1].classes = <<>>
                /\ Continues(rec, "monitor:codeQuality"))
        /\ ("query:SymbolTable" \in rec.faults =>
                /\ rec.results.codeQuality # <<>>
                /\ rec.results.codeQuality[1].classes # <<>>
                /\ \E i \in 1..Len(rec.results.codeQuality[1].classes) :
                      rec.results.codeQuality[1].classes[i].complexity = 0
                /\ Continues(rec, "monitor:codeQuality"))

\* the EventLogFile query and the SymbolTable query of a class failed in one
\* run, which went on to the end
C6_Witness ==
    \E r \in Runs :
        /\ run[r].faults = {"query:EventLogFile", "query:SymbolTable"}
        /\ run[r].results.debugLogs[1].errors = <<>>
        /\ Len(run[r].results.codeQuality[1].classes) = 1
        /\ run[r].outcome.kind = "resolved"
        /\ run[r].outcome.success

C9_NotifierBestEffort ==
    \A r \in Runs :
        LET rec == run[r] IN
        /\ rec.outcome.error # "err:notify"
        /\ (Has(rec, "notify") => Has(rec, "endRun:completed"))
        /\ (rec.faults \cap NotifyFaults # {} => Has(rec, "endRun:completed"))
        /\ (Settled(r) /\ rec.faults # {} /\ rec.faults \subseteq NotifyFaults =>
                /\ CompletedRow(runsTable[rec.runId])
                /\ rec.outcome = [kind |-> "resolved", success |-> TRUE, error |-> ""])

\* report generation throws, nothing else fails: the run is completed
C9_Witness ==
    \E r \in Runs :
        /\ run[r].faults = {"notify:generateReport"}
        /\ run[r].notified = "failed"
        /\ runsTable[run[r].runId].status = "completed"
        /\ run[r].outcome.success

\* C10: whatever step of a run fails, run() resolves, with a success result or
\* with a failure result that carries the error's message; it never rejects.
C10_RunAlwaysResolves ==
    \A r \in Runs :
        Settled(r) =>
            /\ run[r].outcome.kind = "resolved"
            /\ (~run[r].outcome.success => run[r].outcome.error # "")

\* the positions of a step in the history of a run
Positions(rec, step) == {i \in 1..Len(rec.steps) : rec.steps[i] = step}

\* the step that stores the records of a monitor, and the records of its
\* snapshot
InsertStepOf(m) ==
    CASE m = "monitor:debugLogs" -> "insert:errors"
      [] m = "monitor:governorLimits" -> "insert:limits"
      [] m = "monitor:codeQuality" -> "insert:quality"

EnabledStep(m) ==
    CASE m = "monitor:debugLogs" -> config.monitoring.enabled.debugLogs
      [] m = "monitor:governorLimits" -> config.monitoring.enabled.governorLimits
      [] m = "monitor:codeQuality" -> config.monitoring.enabled.codeQuality

SnapshotOf(rec, m) ==
    CASE m = "monitor:debugLogs" -> rec.results.debugLogs
      [] m = "monitor:governorLimits" -> rec.results.governorLimits
      [] m = "monitor:codeQuality" -> rec.results.codeQuality

RecordsOf(rec, m) ==
    CASE m = "monitor:debugLogs" -> rec.results.debugLogs[1].errors
      [] m = "monitor:governorLimits" -> rec.results.governorLimits[1].limitData
      [] m = "monitor:codeQuality" -> rec.results.codeQuality[1].classes

\* C11: within one run only the enabled monitors are invoked, each at most
\* once and in the order debug logs, governor limits, code quality; and every
\* invoked monitor that returned a snapshot has its records stored by the next
\* step when they are not empty, and no insert is issued when they are empty.
C11_MonitorsInOrderAndStored ==
    \A r \in Runs :
        LET rec == run[r] IN
        /\ \A m \in MonitorSteps :
            /\ Cardinality(Positions(rec, m)) <= 1
            /\ (Positions(rec, m) # {} => EnabledStep(m))
        /\ \A i \in Positions(rec, "monitor:debugLogs"),
              j \in Positions(rec, "monitor:governorLimits") : i < j
        /\ \A i \in Positions(rec, "monitor:governorLimits"),
              j \in Positions(rec, "monitor:codeQuality") : i < j
        /\ \A i \in Positions(rec, "monitor:debugLogs"),
              j \in Positions(rec, "monitor:codeQuality") : i < j
        /\ \A m \in MonitorSteps :
            \A i \in Positions(rec, m) :
                SnapshotOf(rec, m) # <<>> =>
                    IF RecordsOf(rec, m) # <<>>
                    THEN i < Len(rec.steps) /\ rec.steps[i + 1] = InsertStepOf(m)
                    ELSE Positions(rec, InsertStepOf(m)) = {}

\* ----------------------------------------------------------------------
\* the detector
\* ----------------------------------------------------------------------
\* the anomalies of a type in a list, in order
RECURSIVE OfType(_, _)
OfType(list, types) ==
    IF list = <<>> THEN <<>>
    ELSE (IF Head(list).type \in types THEN <<Head(list)>> ELSE <<>>)
         \o OfType(Tail(list), types)

\* C12: for every error snapshot and threshold, detect emits exactly one
\* HIGH_ERROR_RATE anomaly, of severity HIGH, if the snapshot's total error
\* count is at least thresholds.errorRate.absoluteCount (an equal count
\* fires), and none otherwise.
C12_HighErrorRate ==
    dPc # "input" =>
        LET found == OfType(dFirst, {"HIGH_ERROR_RATE"}) IN
        IF dResults.debugLogs = <<>> THEN found = <<>>
        ELSE IF dResults.debugLogs[1].summary.totalErrors
                    >= dConfig.thresholds.errorRate.absoluteCount
             THEN /\ Len(found) = 1
                  /\ found[1].severity = "HIGH"
                  /\ found[1].measure = Len(dResults.debugLogs[1].errors)
             ELSE found = <<>>

\* three errors against a threshold of three: the anomaly is there
C12_Witness ==
    /\ dPc = "once"
    /\ dResults.debugLogs # <<>>
    /\ Len(dResults.debugLogs[1].errors) = 3
    /\ dConfig.thresholds.errorRate.absoluteCount = 3
    /\ Len(OfType(dFirst, {"HIGH_ERROR_RATE"})) = 1

\* the distinct error types of an error list
DistinctTypes(errors) == {errors[i].errorType : i \in 1..Len(errors)}

\* C13: detect emits exactly one MULTIPLE_ERROR_TYPES anomaly, of severity
\* MEDIUM, if the error snapshot holds more than 5 distinct error types
\* (exactly 5 does not fire), and none otherwise, whether or not
\* HIGH_ERROR_RATE fires.
C13_MultipleErrorTypes ==
    dPc # "input" =>
        LET found == OfType(dFirst, {"MULTIPLE_ERROR_TYPES"}) IN
        IF dResults.debugLogs = <<>> THEN found = <<>>
        ELSE IF Cardinality(DistinctTypes(dResults.debugLogs[1].errors)) > 5
             THEN /\ Len(found) = 1
                  /\ found[1].severity = "MEDIUM"
             ELSE found = <<>>

\* six errors of six types against a threshold of seven errors:
\* MULTIPLE_ERROR_TYPES fires and HIGH_ERROR_RATE does not
C13_Witness ==
    /\ dPc = "once"
    /\ dResults.debugLogs # <<>>
    /\ Cardinality(DistinctTypes(dResults.debugLogs[1].errors)) = 6
    /\ Len(OfType(dFirst, {"MULTIPLE_ERROR_TYPES"})) = 1
    /\ OfType(dFirst, {"HIGH_ERROR_RATE"}) = <<>>

LimitTypes == {"HIGH_GOVERNOR_LIMIT_USAGE", "HIGH_LIMIT_USAGE"}

\* the highest of the four used/limit*100 of a limit record is at least p
UsageAtLeast(rec, p) ==
    \/ rec.soqlQueriesUsed * 100 >= p * SoqlQueriesLimit
    \/ rec.dmlStatementsUsed * 100 >= p * DmlStatementsLimit
    \/ rec.cpuTimeUsed * 100 >= p * CpuTimeLimit
    \/ rec.heapSizeUsed * 100 >= p * HeapSizeLimit

\* how many elements of a list have a class name
CountOf(list, name, field) ==
    Cardinality({i \in 1..Len(list) : list[i][field] = name})

UsageSeverity(rec) ==
    IF UsageAtLeast(rec, 90) THEN "CRITICAL"
    ELSE IF UsageAtLeast(rec, 80) THEN "HIGH"
    ELSE "MEDIUM"

\* C15: the severity of every limit-usage anomaly is CRITICAL iff the highest
\* used/limit*100 of its record is at least 90, HIGH iff it is in [80, 90), and
\* MEDIUM otherwise.
C15_LimitSeverity ==
    (dPc # "input" /\ dResults.governorLimits # <<>>) =>
        LET found == OfType(dFirst, LimitTypes)
            data == dResults.governorLimits[1].limitData
        IN  \A a \in 1..Len(found) :
                \A i \in 1..Len(data) :
                    data[i].className = found[a].subject =>
                        found[a].severity = UsageSeverity(data[i])

Severities == {"LOW", "MEDIUM", "HIGH", "CRITICAL"}

\* the anomalies detect returned and the anomalies stored
AllAnomalies ==
    {dFirst[i] : i \in 1..Len(dFirst)} \cup {dSecond[i] : i \in 1..Len(dSecond)}
    \cup {anomalyRows[i].record : i \in 1..Len(anomalyRows)}

\* C16 as stated: every anomaly has its type in {HIGH_ERROR_RATE,
\* MULTIPLE_ERROR_TYPES, HIGH_LIMIT_USAGE, CODE_QUALITY_ISSUE} and its severity
\* in {LOW, MEDIUM, HIGH, CRITICAL}.
C16_AnomalyTypesAsNamed ==
    \A a \in AllAnomalies :
        /\ a.type \in {"HIGH_ERROR_RATE", "MULTIPLE_ERROR_TYPES", "HIGH_LIMIT_USAGE",
                       "CODE_QUALITY_ISSUE"}
        /\ a.severity \in Severities

\* C16 as amended: every anomaly returned by detect, and so every anomaly
\* stored, has its type in {HIGH_ERROR_RATE, MULTIPLE_ERROR_TYPES,
\* HIGH_GOVERNOR_LIMIT_USAGE, CODE_QUALITY_ISSUE} and its severity in {LOW,
\* MEDIUM, HIGH, CRITICAL}; HIGH_LIMIT_USAGE is never emitted.
C16_AnomalyTypes ==
    \A a \in AllAnomalies :
        /\ a.type \in {"HIGH_ERROR_RATE", "MULTIPLE_ERROR_TYPES",
                       "HIGH_GOVERNOR_LIMIT_USAGE", "CODE_QUALITY_ISSUE"}
        /\ a.severity \in Severities
        /\ (a.type = "HIGH_ERROR_RATE" => a.severity = "HIGH")
        /\ (a.type = "MULTIPLE_ERROR_TYPES" => a.severity = "MEDIUM")
        /\ (a.type = "HIGH_GOVERNOR_LIMIT_USAGE" =>
                a.severity \in {"MEDIUM", "HIGH", "CRITICAL"})
        /\ (a.type = "CODE_QUALITY_ISSUE" => a.severity \in {"LOW", "MEDIUM"})

\* one list with the four types and the four severities
C16_Witness ==
    /\ dPc = "once"
    /\ {dFirst[i].type : i \in 1..Len(dFirst)} =
         {"HIGH_ERROR_RATE", "MULTIPLE_ERROR_TYPES", "HIGH_GOVERNOR_LIMIT_USAGE",
          "CODE_QUALITY_ISSUE"}
    /\ {dFirst[i].severity : i \in 1..Len(dFirst)} = Severities

\* the number of issues the claim gives a class
IssueCount(cls, thresholds) ==
    (IF cls.complexity > thresholds.cyclomaticComplexity THEN 1 ELSE 0)
    + (IF cls.length > thresholds.classLength THEN 1 ELSE 0)
    + (IF cls.testCoverage # <<>> /\ cls.testCoverage[1] < thresholds.minTestCoverage
       THEN 1 ELSE 0)

\* C17: for every class exactly one CODE_QUALITY_ISSUE anomaly is emitted iff
\* the class has at least one issue (complexity strictly above
\* cyclomaticComplexity, length strictly above classLength, coverage strictly
\* below minTestCoverage when the coverage is known); its severity is MEDIUM if
\* the class has at least 3 issues and LOW otherwise.
C17_QualityAnomalyPerClass ==
    dPc # "input" =>
        LET found == OfType(dFirst, {"CODE_QUALITY_ISSUE"}) IN
        IF dResults.codeQuality = <<>> THEN found = <<>>
        ELSE LET classes == dResults.codeQuality[1].classes
                 th == dConfig.thresholds.codeQuality
                 bad == {i \in 1..Len(classes) : IssueCount(classes[i], th) >= 1}
             IN  /\ Len(found) = Cardinality(bad)
                 /\ \A i \in 1..Len(classes) :
                       /\ CountOf(found, classes[i].name, "subject") =
                            Cardinality({j \in bad : classes[j].name = classes[i].name})
                       /\ \A a \in 1..Len(found) :
                            found[a].subject = classes[i].name =>
                                found[a].severity =
                                    IF IssueCount(classes[i], th) >= 3
                                    THEN "MEDIUM" ELSE "LOW"

\* a class with three issues, then a class whose metrics equal the thresholds:
\* one anomaly, MEDIUM, for the first
C17_Witness ==
    /\ dPc = "once"
    /\ dResults.codeQuality # <<>>
    /\ Len(dResults.codeQuality[1].classes) = 2
    /\ dResults.codeQuality[1].classes[1].name = "K3"
    /\ dResults.codeQuality[1].classes[2].name = "K2"
    /\ Len(OfType(dFirst, {"CODE_QUALITY_ISSUE"})) = 1
    /\ OfType(dFirst, {"CODE_QUALITY_ISSUE"})[1].severity = "MEDIUM"
    /\ OfType(dFirst, {"CODE_QUALITY_ISSUE"})[1].subject = "K3"

\* the values of a field at the positions of a list that are in keep, in the
\* order of the list
RECURSIVE Pick(_, _, _)
Pick(list, keep, field) ==
    IF list = <<>> THEN <<>>
    ELSE Pick(SubSeq(list, 1, Len(list) - 1), keep, field)
         \o (IF Len(list) \in keep THEN <<list[Len(list)][field]>> ELSE <<>>)

Subjects(list) == [i \in 1..Len(list) |-> list[i].subject]

\* C18: the list detect returns holds the error anomalies first,
\* HIGH_ERROR_RATE before MULTIPLE_ERROR_TYPES, then the limit anomalies in the
\* order of the input limit records, then the quality anomalies in the order
\* of the input classes.
C18_DetectOrder ==
    dPc # "input" =>
        LET rate == OfType(dFirst, {"HIGH_ERROR_RATE"})
            types == OfType(dFirst, {"MULTIPLE_ERROR_TYPES"})
            limits == OfType(dFirst, LimitTypes)
            quality == OfType(dFirst, {"CODE_QUALITY_ISSUE"})
            data == IF dResults.governorLimits = <<>> THEN <<>>
                    ELSE dResults.governorLimits[1].limitData
            classes == IF dResults.codeQuality = <<>> THEN <<>>
                       ELSE dResults.codeQuality[1].classes
        IN  /\ dFirst = rate \o types \o limits \o quality
            /\ Subjects(limits) =
                 Pick(data,
                      {i \in 1..Len(data) :
                          UsageAtLeast(data[i],
                                       dConfig.thresholds.governorLimits.soqlQueries)},
                      "className")
            /\ Subjects(quality) =
                 Pick(classes,
                      {i \in 1..Len(classes) :
                          IssueCount(classes[i], dConfig.thresholds.codeQuality) >= 1},
                      "name")

\* both error anomalies, then ClsD and ClsC, then K3 and K1
C18_Witness ==
    /\ dPc = "once"
    /\ Len(dFirst) = 6
    /\ dFirst[1].type = "HIGH_ERROR_RATE"
    /\ dFirst[2].type = "MULTIPLE_ERROR_TYPES"
    /\ Subjects(SubSeq(dFirst, 3, 6)) = <<"ClsD", "ClsC", "K3", "K1">>

Stored(rec, step, records) ==
    IF Has(rec, step) /\ step \notin rec.faults THEN records ELSE <<>>

\* C20: every stored error record, limit record and anomaly carries the id of
\* exactly one run, the run whose monitors or detector produced it, and the row
\* of that run exists; the rows stored under the id of a run are the records
\* that run inserted, however the runs interleave.
C20_RowsBelongToTheirRun ==
    /\ \A rows \in {errorRows, limitRows, anomalyRows} :
          \A i \in 1..Len(rows) :
              /\ rows[i].run_id \in 1..Len(runsTable)
              /\ Cardinality({r \in Runs : run[r].runId = rows[i].run_id}) = 1
    /\ \A r \in Runs :
          run[r].runId # 0 =>
              LET rec == run[r] IN
              /\ Pick(errorRows, RowsOf(errorRows, rec.runId), "record") =
                   Stored(rec, "insert:errors",
                          IF rec.results.debugLogs = <<>> THEN <<>>
                          ELSE rec.results.debugLogs[1].errors)
              /\ Pick(limitRows, RowsOf(limitRows, rec.runId), "record") =
                   Stored(rec, "insert:limits",
                          IF rec.results.governorLimits = <<>> THEN <<>>
                          ELSE rec.results.governorLimits[1].limitData)
              /\ Pick(anomalyRows, RowsOf(anomalyRows, rec.runId), "record") =
                   Stored(rec, "insert:anomalies", rec.anomalies)

\* two overlapping runs: the second stored its errors before the first, and
\* the first stored its anomalies before the second
C20_Witness ==
    /\ Len(errorRows) = 2
    /\ errorRows[1].run_id = 2
    /\ errorRows[2].run_id = 1
    /\ Len(anomalyRows) >= 2
    /\ anomalyRows[1].run_id = 1
    /\ anomalyRows[Len(anomalyRows)].run_id = 2

\* ----------------------------------------------------------------------
\* the batch inserts
\* ----------------------------------------------------------------------
\* the rows a batch adds when all of it is stored
RowsFor(id, batch) == [i \in 1..Len(batch) |-> [run_id |-> id, record |-> batch[i]]]

\* a call of run() takes the insert step in this transition
Inserts(before, after, step) == ~Has(before, step) /\ Has(after, step)

\* the insert step taken between before and after stored all of batch, or,
\* when it threw, nothing
AllOrNothing(before, after, old, new, step, batch) ==
    Inserts(before, after, step) =>
        /\ Len(batch) > 0
        /\ new = IF step \in after.faults THEN old
                 ELSE old \o RowsFor(after.runId, batch)

\* C21: insertDebugLogErrors, insertGovernorLimits and insertAnomalies are
\* all-or-nothing: a call that throws at any record of its batch leaves the
\* table as it was, a call that returns has appended every record of the batch,
\* and nothing else changes the three tables.
C21_BatchAllOrNothing ==
    [][/\ \A r \in Runs :
            /\ AllOrNothing(run[r], run'[r], errorRows, errorRows', "insert:errors",
                            IF run'[r].results.debugLogs = <<>> THEN <<>>
                            ELSE run'[r].results.debugLogs[1].errors)
            /\ AllOrNothing(run[r], run'[r], limitRows, limitRows', "insert:limits",
                            IF run'[r].results.governorLimits = <<>> THEN <<>>
                            ELSE run'[r].results.governorLimits[1].limitData)
            /\ AllOrNothing(run[r], run'[r], anomalyRows, anomalyRows',
                            "insert:anomalies", run'[r].anomalies)
       /\ (errorRows' # errorRows =>
             \E r \in Runs : Inserts(run[r], run'[r], "insert:errors"))
       /\ (limitRows' # limitRows =>
             \E r \in Runs : Inserts(run[r], run'[r], "insert:limits"))
       /\ (anomalyRows' # anomalyRows =>
             \E r \in Runs : Inserts(run[r], run'[r], "insert:anomalies"))]_vars

\* a run stored its error batch, then its batch of three anomalies threw and
\* none of the three is in the table; the other run stored its anomalies
C21_Witness ==
    \E r, q \in Runs :
        /\ r # q
        /\ Has(run[r], "insert:errors")
        /\ "insert:errors" \notin run[r].faults
        /\ RowsOf(errorRows, run[r].runId) # {}
        /\ "insert:anomalies" \in run[r].faults
        /\ Len(run[r].anomalies) = 3
        /\ RowsOf(anomalyRows, run[r].runId) = {}
        /\ Has(run[q], "insert:anomalies")
        /\ "insert:anomalies" \notin run[q].faults
        /\ Cardinality(RowsOf(anomalyRows, run[q].runId)) = Len(run[q].anomalies)

\* ----------------------------------------------------------------------
\* the process: startup run, cron runs, signals, exit
\* ----------------------------------------------------------------------
\* the calls of run() that have been made
Started == {r \in Runs : Len(run[r].steps) > 0}

\* C22: at most one run is between its startRun and its terminal endRun.
C22_AtMostOneRun == Cardinality({r \in Runs : InFlight(r)}) <= 1

\* C23: a run acquires its connection once, and two runs in flight at the same
\* time never hold the same connection object.
C23_OwnConnection ==
    /\ \A r \in Runs : Cardinality(Positions(run[r], "getConnection")) <= 1
    /\ \A r, q \in Runs :
          (r # q /\ InFlight(r) /\ InFlight(q)) => run[r].conn # run[q].conn

\* C24: in continuous mode no run is started before initialize() succeeded;
\* once it has, the scheduler is started and exactly one run is started with
\* it, whatever the schedule; every cron trigger starts exactly one more run,
\* so the runs started are one plus the triggers; a stopped scheduler triggers
\* nothing.
C24_StartupRunAndCronRuns ==
    /\ [](~runOnce =>
            /\ Cardinality(Started) = (IF task = "null" THEN 0 ELSE 1) + ticks
            /\ (task # "null" => initState = "ok" /\ 1 \in Started)
            /\ (mainPc \in {"awaitRun", "serving"} => task = "scheduled"))
    /\ [][~runOnce =>
            /\ (ticks' # ticks =>
                  /\ ticks' = ticks + 1
                  /\ task = "scheduled"
                  /\ \E r \in Runs \ Started : Started' = Started \cup {r})
            /\ (Started' # Started =>
                  \/ ticks' = ticks + 1
                  \/ task = "null" /\ task' = "scheduled" /\ Started' = {1})
            /\ (task = "stopped" => task' = "stopped")]_vars

\* the cron task fired while the startup run was still in flight, and both
\* runs are under way
C24_Witness ==
    /\ ~runOnce
    /\ mainPc = "awaitRun"
    /\ ticks = 1
    /\ Started = {1, 2}
    /\ InFlight(1)
    /\ InFlight(2)

\* C25: a SIGINT or SIGTERM received once the scheduler has started, the
\* startup run being in flight or not, stops the scheduler, runs cleanup and
\* exits with code 0.
C25_GracefulShutdown ==
    signal # "" =>
        /\ mainPc = "exited"
        /\ task = "stopped"
        /\ closes = 1
        /\ db = "closed"
        /\ exitCode = <<0>>

\* C26: when the process has exited, a storage handle that was opened has been
\* closed exactly once; it is never closed twice; and once it is closed no
\* store write follows.
C26_HandleClosedOnce ==
    /\ [](/\ closes <= 1
          /\ (mainPc = "exited" /\ db \in {"open", "closed"} =>
                 db = "closed" /\ closes = 1))
    /\ [][db = "closed" =>
            UNCHANGED <<runsTable, errorRows, limitRows, anomalyRows>>]_vars

\* C27: when initialize() fails, in either mode, no run is ever started, no run
\* row exists, the scheduler is never started and never fires, and the process
\* exits with code 1; in one-shot mode after a successful initialize() the
\* process has made exactly one call of run() when it exits, and exits with
\* code 0 when that run succeeded.
C27_InitFailureAndOneShot ==
    /\ initState = "failed" =>
          /\ Started = {}
          /\ runsTable = <<>>
          /\ task = "null"
          /\ ticks = 0
          /\ mainPc \in {"initialized", "exited"}
          /\ (mainPc = "exited" => exitCode = <<1>>)
    /\ (runOnce /\ initState = "ok") =>
          /\ task = "null"
          /\ ticks = 0
          /\ Started \subseteq {1}
          /\ (mainPc = "exited" =>
                 /\ Started = {1}
                 /\ Len(runsTable) <= 1
                 /\ (run[1].outcome.success => exitCode = <<0>>))

\* authentication failed after the storage was opened, in continuous mode:
\* the process has exited with code 1, the handle closed, nothing started
C27_Witness ==
    /\ ~runOnce
    /\ initState = "failed"
    /\ db = "closed"
    /\ mainPc = "exited"
    /\ exitCode = <<1>>
    /\ runsTable = <<>>

\* ----------------------------------------------------------------------
\* SalesforceAuth
\* ----------------------------------------------------------------------
\* the connection of the latest authenticate() that succeeded before call i,
\* 0 when none did
LastAuthenticated(i) ==
    LET S == {j \in 1..(i - 1) :
                authLog[j].op = "authenticate" /\ ~authLog[j].threw}
    IN  IF S = {} THEN 0
        ELSE authLog[CHOOSE j \in S : \A k \in S : k <= j].conn

\* C28: getConnection throws whenever no authenticate call has succeeded so
\* far, failed authenticate calls included, and otherwise returns the
\* connection of the most recent successful authenticate.
C28_GetConnection ==
    \A i \in 1..Len(authLog) :
        authLog[i].op = "getConnection" =>
            IF LastAuthenticated(i) = 0
            THEN authLog[i].threw
            ELSE ~authLog[i].threw /\ authLog[i].conn = LastAuthenticated(i)

\* a failed authenticate, getConnection throws; two successful ones and a
\* failed one, getConnection returns the connection of the second success
C28_Witness ==
    /\ Len(authLog) = 6
    /\ authLog[1].op = "authenticate" /\ authLog[1].threw
    /\ authLog[2].op = "getConnection" /\ authLog[2].threw
    /\ authLog[3].op = "authenticate" /\ ~authLog[3].threw
    /\ authLog[4].op = "authenticate" /\ ~authLog[4].threw
    /\ authLog[5].op = "authenticate" /\ authLog[5].threw
    /\ authLog[6].op = "getConnection" /\ ~authLog[6].threw
    /\ authLog[6].conn = authLog[4].conn
    /\ authLog[6].conn # authLog[3].conn

\* ----------------------------------------------------------------------
\* the run rows
\* ----------------------------------------------------------------------
\* C29: startRun appends one run row and returns its id; the row is running
\* when the run goes on; the id is greater than every id returned before, so
\* the ids of successive calls increase strictly and no two runs, overlapping
\* or not, share an id.  Nothing else adds or removes a run row.
C29_RunIdsIncrease ==
    /\ [](\A r, q \in Runs :
            /\ run[r].runId \in 0..Len(runsTable)
            /\ (r < q /\ run[r].runId # 0 /\ run[q].runId # 0) =>
                   run[r].runId < run[q].runId)
    /\ [][/\ \A r \in Runs :
               (run[r].runId = 0 /\ run'[r].runId # 0) =>
                   /\ runsTable' # runsTable
                   /\ Len(runsTable') = Len(runsTable) + 1
                   /\ run'[r].runId = Len(runsTable')
                   /\ \A id \in 1..Len(runsTable) : runsTable'[id] = runsTable[id]
                   /\ \A q \in Runs : run[q].runId < run'[r].runId
                   /\ (run'[r].pc = "debugLogs" =>
                          RunningRow(runsTable'[run'[r].runId]))
          /\ (Len(runsTable') # Len(runsTable) =>
                 \E r \in Runs : run[r].runId = 0 /\ run'[r].runId # 0)
          /\ \A r \in Runs : run[r].runId # 0 => run'[r].runId = run[r].runId]_vars

\* two overlapping runs hold the ids 1 and 2, and both rows are running
C29_Witness ==
    /\ InFlight(1)
    /\ InFlight(2)
    /\ run[1].runId = 1
    /\ run[2].runId = 2
    /\ RunningRow(runsTable[1])
    /\ RunningRow(runsTable[2])

\* C30: every run row has status running, completed or failed, and has a
\* duration exactly when its status is completed or failed.
C30_DurationIffTerminal ==
    \A id \in 1..Len(runsTable) :
        /\ runsTable[id].status \in {"running", "completed", "failed"}
        /\ (runsTable[id].duration_ms # <<>>) <=>
               (runsTable[id].status \in {"completed", "failed"})
        /\ runsTable[id].duration_ms \in {<<>>} \cup {<<d>> : d \in Elapsed}

\* one run has failed and its row has a duration, the other is under way and
\* its row has none
C30_Witness ==
    /\ Len(runsTable) = 2
    /\ FailedRow(runsTable[1])
    /\ RunningRow(runsTable[2])
    /\ InFlight(2)

\* ----------------------------------------------------------------------
\* the order of the steps of a run
\* ----------------------------------------------------------------------
\* the one position of a step that was taken once
PosOf(rec, step) == CHOOSE i \in Positions(rec, step) : TRUE

\* step a was taken, once, and before every occurrence of step b
Before(rec, a, b) ==
    /\ Cardinality(Positions(rec, a)) = 1
    /\ \A j \in Positions(rec, b) : PosOf(rec, a) < j

\* the monitors the configuration enables
EnabledMonitors ==
    {m \in {"debugLogs", "governorLimits", "codeQuality"} : config.monitoring.enabled[m]}

\* C31: in every run, detection is reached only after every enabled monitor
\* was called and returned; anomalies, when there are any, are inserted after
\* detection and before the notifier is invoked; the notifier is invoked at
\* most once, only after detection, and exactly once and before the write in a
\* run whose row is set to completed; a run that failed before the
\* notification step never invokes the notifier.
C31_StepOrder ==
    \A r \in Runs :
        LET rec == run[r] IN
        /\ Cardinality(Positions(rec, "detect")) <= 1
        /\ Cardinality(Positions(rec, "notify")) <= 1
        /\ Has(rec, "detect") =>
              \A m \in EnabledMonitors :
                  /\ Before(rec, "monitor:" \o m, "detect")
                  /\ rec.results[m] # <<>>
        /\ Has(rec, "insert:anomalies") =>
              /\ Before(rec, "detect", "insert:anomalies")
              /\ Before(rec, "insert:anomalies", "notify")
        /\ Has(rec, "notify") =>
              /\ Before(rec, "detect", "notify")
              /\ (Len(rec.anomalies) > 0 =>
                     /\ Has(rec, "insert:anomalies")
                     /\ "insert:anomalies" \notin rec.faults)
              /\ rec.faults \subseteq (QueryFaults \cup NotifyFaults
                                       \cup {"endRun:completed", "endRun:failed"})
        /\ Has(rec, "endRun:completed") => Before(rec, "notify", "endRun:completed")
        /\ (rec.runId # 0 /\ runsTable[rec.runId].status = "completed") =>
              /\ Before(rec, "notify", "endRun:completed")
              /\ rec.notified # "no"
        /\ (\/ ~Has(rec, "detect")
            \/ rec.faults \cap (InsertSteps \cup {"startRun", "getConnection"}) # {}) =>
              ~Has(rec, "notify")

\* a run with anomalies went through every monitor, detection, the insert of
\* its anomalies and the notifier, and its row is completed; the other run
\* failed at the insert of its anomalies and never invoked the notifier
C31_Witness ==
    \E r, q \in Runs :
        /\ r # q
        /\ Len(run[r].anomalies) > 0
        /\ run[r].runId # 0
        /\ runsTable[run[r].runId].status = "completed"
        /\ LastStep(run[r]) = "endRun:completed"
        /\ "insert:anomalies" \in run[q].faults
        /\ run[q].outcome.kind = "resolved"
        /\ ~Has(run[q], "notify")

\* ----------------------------------------------------------------------
\* endRun called more than once
\* ----------------------------------------------------------------------
\* the endRun calls made so far on a run id
EndRunCalls(id) ==
    {j \in 1..Len(storeLog) : storeLog[j].op = "endRun" /\ storeLog[j].runId = id}

\* C32: every endRun call updates the row of its id, also when the row already
\* has a terminal status: after any number of calls the row holds the status
\* and the duration of the latest call on its id, and a row on whose id no
\* endRun was called is as startRun left it.
C32_EndRunLastWriteWins ==
    \A id \in 1..Len(runsTable) :
        LET S == EndRunCalls(id) IN
        IF S = {} THEN RunningRow(runsTable[id])
        ELSE LET last == storeLog[CHOOSE j \in S : \A k \in S : k <= j] IN
             runsTable[id] = [status |-> last.status,
                              duration_ms |-> <<last.durationMs>>]

\* two rows; the first was ended as completed with one duration and then as
\* failed with another, and holds the second write; the other row is running
C32_Witness ==
    /\ Len(runsTable) = 2
    /\ Cardinality(EndRunCalls(1)) = 2
    /\ \E i, j \in EndRunCalls(1) :
          /\ i < j
          /\ storeLog[i].status = "completed" /\ storeLog[i].durationMs = 5
          /\ storeLog[j].status = "failed" /\ storeLog[j].durationMs = 7
    /\ runsTable[1] = [status |-> "failed", duration_ms |-> <<7>>]
    /\ RunningRow(runsTable[2])

\* ----------------------------------------------------------------------
\* retry: the first success
\* ----------------------------------------------------------------------
\* C33: when attempt j is the first to succeed, retry returns the value of that
\* attempt; fn was invoked exactly j times, j - 1 of them failing, with one
\* sleep after each failure; no error of an earlier attempt is thrown and no
\* exhaustion is reported; and after the return fn is not invoked again.
C33_FirstSuccess ==
    /\ [](retryPc = "returned" =>
            /\ attempt \in 1..maxRetries
            /\ fnCalls = attempt
            /\ Len(fnErrors) = attempt - 1
            /\ Len(sleeps) = attempt - 1
            /\ retryResult.kind = "return"
            /\ retryResult.value \in Values
            /\ NumOf("error") = 0
            /\ NumOf("warn") = attempt - 1)
    /\ [](retryResult.kind = "return" => retryPc = "returned")
    /\ [][retryPc = "returned" => UNCHANGED retryVars]_vars

\* two attempts failed with different errors and the third succeeded: three
\* invocations, and the value of the third is returned
C33_Witness ==
    /\ retryPc = "returned"
    /\ maxRetries = 4
    /\ fnErrors = <<"e1", "e2">>
    /\ fnCalls = 3
    /\ retryResult = [kind |-> "return", value |-> "v1"]

\* ----------------------------------------------------------------------
\* every run ends
\* ----------------------------------------------------------------------
\* the row of a run has a terminal status
TerminalRow(r) ==
    run[r].runId # 0 /\ runsTable[run[r].runId].status \in {"completed", "failed"}

QualityAnomalies(list) ==
    {list[i] : i \in {j \in 1..Len(list) : list[j].type = "CODE_QUALITY_ISSUE"}}

Extends(old, new) ==
    /\ Len(new) >= Len(old)
    /\ \A i \in 1..Len(old) : new[i] = old[i]

\* the run ended as failed: run() returned success = false or threw
EndedFailed(r) == Settled(r) /\ ~run[r].outcome.success

\* C35: a row once stored is never removed or changed, whatever happens later
\* in its run or in another; so when a later step of a run fails and the run
\* ends failed, the error batch and the limit batch it had inserted are still
\* stored, whole, under its run id.
C35_NoRunRollback ==
    /\ [][/\ Extends(errorRows, errorRows')
          /\ Extends(limitRows, limitRows')
          /\ Extends(anomalyRows, anomalyRows')]_vars
    /\ [](\A r \in Runs :
            (EndedFailed(r) /\ run[r].runId # 0) =>
                /\ (Has(run[r], "insert:errors") /\ "insert:errors" \notin run[r].faults) =>
                       Pick(errorRows, RowsOf(errorRows, run[r].runId), "record") =
                           run[r].results.debugLogs[1].errors
                /\ (Has(run[r], "insert:limits") /\ "insert:limits" \notin run[r].faults) =>
                       Pick(limitRows, RowsOf(limitRows, run[r].runId), "record") =
                           run[r].results.governorLimits[1].limitData)

\* a run inserted its error records, then its insert of limit records threw
\* and its row is failed: the error records are still stored under its id
C35_Witness ==
    \E r \in Runs :
        /\ EndedFailed(r)
        /\ run[r].runId # 0
        /\ FailedRow(runsTable[run[r].runId])
        /\ Has(run[r], "insert:errors")
        /\ "insert:limits" \in run[r].faults
        /\ RowsOf(errorRows, run[r].runId) # {}
        /\ RowsOf(limitRows, run[r].runId) = {}

\* ----------------------------------------------------------------------
\* the exit code of the one-shot mode
\* ----------------------------------------------------------------------
\* C37: in one-shot mode the process that has exited after a successful
\* initialize() has exit code 0 exactly when run() returned, with success true
\* or false, and then cleanup has closed the storage; exit code 1 is produced
\* exactly when initialize() threw or run() threw.
C37_OneShotExitCode ==
    (runOnce /\ mainPc = "exited") =>
        /\ exitCode \in {<<0>>, <<1>>}
        /\ (exitCode = <<0>>) <=>
              (initState = "ok" /\ run[1].outcome.kind = "resolved")
        /\ (exitCode = <<1>>) <=>
              (initState = "failed" \/ run[1].outcome.kind = "rejected")
        /\ (initState = "ok" => db = "closed" /\ closes = 1)

\* the one-shot run failed at its first monitor, run() returned success =
\* false and the run row is failed: cleanup was done and the exit code is 0
C37_Witness ==
    /\ runOnce
    /\ mainPc = "exited"
    /\ run[1].outcome.kind = "resolved"
    /\ ~run[1].outcome.success
    /\ run[1].runId # 0
    /\ FailedRow(runsTable[run[1].runId])
    /\ db = "closed"
    /\ exitCode = <<0>>

====
